---------------------------- MODULE Spec2Model ----------------------------
(***************************************************************************)
(* A model of LeanEvolve's search-control and verification-cascade code:   *)
(*   - ConjectureEvaluator.evaluate (the five-stage cascade) together with *)
(*     KiminaPool.verify_proofs_passk and _evaluate_proofs_passk;          *)
(*   - the MAP-Elites archive of map_archive.py.                           *)
(*                                                                         *)
(* Conventions.  Python lists and the dicts keyed by the contiguous local  *)
(* indices 0..n-1 are sequences here, so an index i of the code is i+1 in  *)
(* the model; the composite identities "i:j" keep the code's 0-based       *)
(* digits.  A text (a proof, a message) is a sequence of tokens and its    *)
(* length is the number of tokens.  None is the string "None" where the    *)
(* code holds a string, and NoneList where it holds a list.                *)
(*                                                                         *)
(* evaluate hands such dicts to Prover.generate_k, to verify_proofs_passk  *)
(* and to batch_push_neg, whose signatures declare sequences of            *)
(* conjectures and whose loops iterate them; these callees are modelled on *)
(* the sequence their signature declares.  Conjecture.update_proof is      *)
(* called by evaluate and defined nowhere in the sources at hand; it is    *)
(* modelled as the write of the candidate's resolved-proof field.          *)
(***************************************************************************)
EXTENDS Integers, Sequences, FiniteSets, TLC

VARIABLES
    \* ---- one run of ConjectureEvaluator.evaluate ----
    pc,             \* the stage whose request is issued next, "returned" or "raised"
    testing,        \* evaluate's `testing` argument
    nconj,          \* len(conjectures)
    stage1_pass,    \* global indices that compiled
    stage2_pass,    \* global indices still open after exact?
    stage3_pass,    \* global indices still open after aesop?
    results,        \* the list evaluate returns
    proofs,         \* stage 4's `proofs`: local index -> verified / unverified lists
    unverified_idx, \* stage 4's `unverified_idx` (local indices)
    proof,          \* the resolved-proof field of every candidate
    proof_writes,   \* how many times update_proof was called on every candidate
    submitted,      \* per candidate, the stages whose request batch held it
    fwd_ok,         \* per candidate, _is_verified of each forward completion's entry
    neg_ok,         \* per candidate, _is_verified of each negated completion's entry
    bad_id_seen,    \* a pass@k response carried an identity that is not "i:j"
    requests,       \* the round trips to the verification service, in order
    aesop_seen,     \* aesop_res per candidate, until stage 4 starts
    \* ---- the archive of map_archive.py ----
    cfg,            \* _cfg: bins, prune_threshold, stale_after_sec
    elite_map,      \* _elite_map: niche key -> elite record
    dirty,          \* _dirty
    now,            \* int(time.time())
    best_seen,      \* per niche key, the best (score, timestamp) passed to update_elites
    best_since,     \* the same, since the key was last removed by prune or reset
    last_op,        \* the archive operation that ran last, and how it ended
    \* ---- one call of _feature_key ----
    fk_entry,       \* the entry whose key is derived
    fk_cfg,         \* the bins of the configuration
    fk_key,         \* the derived key
    fk_done,        \* whether _feature_key has run
    \* ---- sampling and persistence of the archive ----
    sampled,        \* the last call of sample_parents: its k and what it returned
    float_keys,     \* the keys of _elite_map whose key object is the float tuple
    files,          \* the documents on disk: the archive file and its .tmp sibling
    persist_pc,     \* where persist() stands: "idle", "writing" or "written"
    snapshots,      \* the complete documents persist() has set out to write
    load_note,      \* how the last load_existing() ended
    \* ---- the scheduler and the ledger ----
    op_stats,       \* _op_stats: operator id -> <<wins, tries>>
    ledger,         \* the lines of program_db.jsonl
    chosen,         \* the last call of choose_parents: its k and how it ended
    next_uuid,      \* the next id uuid.uuid4() hands out
    \* ---- one iteration of ConjecturerPipeline.run ----
    iteration,      \* where the iteration stands, its batch and what it has done
    \* ---- one call of a function on drawn arguments ----
    call_in,        \* the arguments
    call_out,       \* what the function returned
    call_done       \* whether the function has run

cascadeVars == <<pc, testing, nconj, stage1_pass, stage2_pass, stage3_pass,
                 results, proofs, unverified_idx, proof, proof_writes,
                 submitted, fwd_ok, neg_ok, bad_id_seen, requests,
                 aesop_seen>>
archiveVars == <<cfg, elite_map, dirty, now, best_seen, best_since, last_op>>
keyVars     == <<fk_entry, fk_cfg, fk_key, fk_done>>
storeVars   == <<sampled, float_keys, files, persist_pc, snapshots, load_note>>
schedVars   == <<op_stats, ledger, chosen, next_uuid>>
runVars     == <<iteration, call_in, call_out, call_done>>
vars        == <<cascadeVars, archiveVars, keyVars, storeVars, schedVars, runVars>>

\* what each family of actions leaves alone
outsideCascade == <<archiveVars, keyVars, storeVars, schedVars, runVars>>
outsideArchive == <<cascadeVars, keyVars, storeVars, schedVars, runVars>>
outsideKey     == <<cascadeVars, archiveVars, storeVars, schedVars, runVars>>

-----------------------------------------------------------------------------
(* Bounds of the exploration *)

MaxBatch == 2          \* candidates of one generation round
MaxTime  == 1          \* the clock runs from 0 to MaxTime
MaxAge   == 2          \* the clock of the pruning runs from 0 to MaxAge
MaxSample == 3         \* sample_parents is called with k from 0 to MaxSample
MaxTrials == 2         \* an operator is tried at most MaxTrials times
MaxLedger == 2         \* the ledger holds at most MaxLedger records

\* the completions the prover service may return for one statement (k = 2)
ShortProof == <<"simp">>
LongProof  == <<"intro", "simp">>
CompletionLists == {<<LongProof, ShortProof>>, <<ShortProof, LongProof>>}

-----------------------------------------------------------------------------
(* Texts *)

TryThis   == "Try this:"
SorryWarn == "declaration uses 'sorry'"
ExactTag  == <<"exact?">>
AesopTag  == <<"aesop?">>
SorryTag  == <<"sorry">>
NoProof   == <<>>
NoneList  == <<<<"None">>>>

\* `needle in data` on token texts: a token holds itself, and the sorry warning
\* holds the word sorry
TokenHolds(tok, needle) ==
    \/ tok = needle
    \/ tok = SorryWarn /\ needle = "sorry"

Contains(data, needle) == \E k \in 1..Len(data) : TokenHolds(data[k], needle)

StartsWith(data, prefix) == Len(data) >= 1 /\ data[1] = prefix

Msg(sev, data) == [severity |-> sev, data |-> data]

\* a response of the verification service in the flat shape _verify_batch returns
Entry(id, err, msgs) == [id |-> id, error |-> err, messages |-> msgs]

\* the `{}` placeholder of verify_proofs_passk: every .get falls back to its default
EmptyEntry == Entry(<<>>, "None", <<>>)

-----------------------------------------------------------------------------
(* What the services may answer, per request *)

CompileAnswers ==
    { [error |-> "None",    messages |-> <<Msg("warning", <<SorryWarn>>)>>],
      [error |-> "None",    messages |-> <<Msg("error", <<"unknown identifier">>)>>],
      [error |-> "timeout", messages |-> <<>>] }

ExactAnswers ==
    { [error |-> "None", messages |-> <<Msg("info", <<TryThis, "exact foo">>)>>],
      [error |-> "None", messages |-> <<Msg("error", <<"exact? could not close the goal">>)>>] }

AesopAnswers ==
    { [error |-> "None", messages |-> <<Msg("info", <<TryThis, "simp_all">>)>>],
      [error |-> "None", messages |-> <<Msg("info", <<TryThis, "simp_all", "sorry">>)>>],
      [error |-> "None", messages |-> <<Msg("error", <<"aesop: failed">>)>>] }

PasskAnswers ==
    { [error |-> "None", messages |-> <<>>],
      [error |-> "None", messages |-> <<Msg("error", <<"unsolved goals">>)>>],
      [error |-> "None", messages |-> <<Msg("warning", <<SorryWarn>>)>>] }

\* identities that do not have the shape "i:j"
BadIds == { <<"a", "b", "c">>, <<"0", ":">> }

-----------------------------------------------------------------------------
(* KiminaPool.verify_proofs_passk: composite identities and regrouping *)

DigitStr == <<"0", "1", "2", "3", "4", "5", "6", "7", "8", "9">>

DigitVal == [d \in {DigitStr[k] : k \in 1..Len(DigitStr)} |->
                (CHOOSE k \in 1..Len(DigitStr) : DigitStr[k] = d) - 1]

\* f"{i}:{j}" for the 0-based i and j (single digits within the bounds)
FormatId(i, j) == <<DigitStr[i + 1], ":", DigitStr[j + 1]>>

ParseId_Swapped(cid) ==
    IF Len(cid) = 3 /\ cid[1] \in DOMAIN DigitVal /\ cid[2] = ":"
                    /\ cid[3] \in DOMAIN DigitVal
    THEN [ok |-> TRUE, i |-> DigitVal[cid[3]], j |-> DigitVal[cid[1]]]
    ELSE [ok |-> FALSE, i |-> 0, j |-> 0]

\* id_re.match(str(cid)) with id_re = ^(\d+):(\d+)$
ParseId(cid) ==
    IF /\ Len(cid) = 3
       /\ cid[1] \in DOMAIN DigitVal
       /\ cid[2] = ":"
       /\ cid[3] \in DOMAIN DigitVal
    THEN [ok |-> TRUE, i |-> DigitVal[cid[1]], j |-> DigitVal[cid[3]]]
    ELSE [ok |-> FALSE, i |-> 0, j |-> 0]

\* the identities of the flat batch: for i, proofs in enumerate(...): for j, prf in
\* enumerate(proofs)
RECURSIVE PasskIds(_, _)
PasskIds(proofs_per_conj, i) ==
    IF i > Len(proofs_per_conj) THEN <<>>
    ELSE [j \in 1..Len(proofs_per_conj[i]) |-> FormatId(i - 1, j - 1)]
         \o PasskIds(proofs_per_conj, i + 1)

\* while len(grouped[i]) <= j: grouped[i].append({})
Pad(row, len) ==
    IF Len(row) >= len THEN row
    ELSE row \o [k \in 1..(len - Len(row)) |-> EmptyEntry]

\* a regrouping that skips the response whose identity does not parse
RECURSIVE GroupInto_DropBadId(_, _, _)
GroupInto_DropBadId(grouped, flat, p) ==
    IF p > Len(flat) THEN [raised |-> FALSE, grouped |-> grouped]
    ELSE LET m == ParseId(flat[p].id) IN
         IF ~m.ok THEN GroupInto_DropBadId(grouped, flat, p + 1)
         ELSE IF m.i + 1 > Len(grouped)
              THEN [raised |-> TRUE, grouped |-> grouped]
              ELSE GroupInto_DropBadId(
                     [grouped EXCEPT ![m.i + 1] =
                         [Pad(@, m.j + 1) EXCEPT ![m.j + 1] = flat[p]]],
                     flat, p + 1)

\* for r in flat_results: ... grouped[i][j] = r
RECURSIVE GroupInto(_, _, _)
GroupInto(grouped, flat, p) ==
    IF p > Len(flat) THEN [raised |-> FALSE, grouped |-> grouped]
    ELSE LET m == ParseId(flat[p].id) IN
         IF ~m.ok THEN [raised |-> TRUE, grouped |-> grouped]    \* RuntimeError
         ELSE IF m.i + 1 > Len(grouped)
              THEN [raised |-> TRUE, grouped |-> grouped]    \* IndexError
              ELSE GroupInto(
                     [grouped EXCEPT ![m.i + 1] =
                         [Pad(@, m.j + 1) EXCEPT ![m.j + 1] = flat[p]]],
                     flat, p + 1)

\* the grouping of verify_proofs_passk for n conjectures
VerifyProofsPassk(n, flat) == GroupInto([i \in 1..n |-> <<>>], flat, 1)

-----------------------------------------------------------------------------
(* ConjectureEvaluator._is_verified and _evaluate_proofs_passk *)

IsVerified_ErrorsOnly(entry, accept_sorry) ==
    /\ entry.error = "None"
    /\ \A k \in 1..Len(entry.messages) : entry.messages[k].severity # "error"

IsVerified(entry, accept_sorry) ==
    IF entry.error # "None" THEN FALSE
    ELSE IF \E k \in 1..Len(entry.messages) : entry.messages[k].severity = "error"
         THEN FALSE
    ELSE IF /\ ~accept_sorry
            /\ \E k \in 1..Len(entry.messages) :
                  /\ entry.messages[k].severity = "warning"
                  /\ Contains(entry.messages[k].data, SorryWarn)
         THEN FALSE
    ELSE TRUE

Min2(a, b) == IF a <= b THEN a ELSE b

\* the elements of seq, up to position m, whose verdict is `want`, in order
RECURSIVE Pick(_, _, _, _)
Pick(seq, verdicts, want, m) ==
    IF m = 0 THEN <<>>
    ELSE Pick(seq, verdicts, want, m - 1)
         \o (IF verdicts[m] = want THEN <<seq[m]>> ELSE <<>>)

\* the verdicts of one res_list, as far as zip(res_list, proofs) reaches
Verdicts(res_list, prfs, accept_sorry) ==
    [j \in 1..Min2(Len(res_list), Len(prfs)) |-> IsVerified(res_list[j], accept_sorry)]

EvaluateProofsPassk(grouped, proofs_per_conj, accept_sorry) ==
    LET v(i) == Verdicts(grouped[i], proofs_per_conj[i], accept_sorry)
        anyOk(i) == \E j \in 1..Len(v(i)) : v(i)[j]
    IN [ verified_idx   |-> {i \in 1..Len(grouped) : anyOk(i)},
         unverified_idx |-> {i \in 1..Len(grouped) : ~anyOk(i)},
         proofs |-> [i \in 1..Len(grouped) |->
                       [verified   |-> Pick(proofs_per_conj[i], v(i), TRUE, Len(v(i))),
                        unverified |-> Pick(proofs_per_conj[i], v(i), FALSE, Len(v(i)))]] ]

-----------------------------------------------------------------------------
(* Pieces of ConjectureEvaluator.evaluate *)

Range(seq) == {seq[k] : k \in 1..Len(seq)}

ResultNew(conj, ptc, ntp, nneg, exact, aesop, err, vp, uvp, nvp, nuvp) ==
    [ conjecture               |-> conj,
      passed_triviality_checks |-> ptc,
      non_trivial_provable     |-> ntp,
      non_trivial_neg_provable |-> nneg,
      exact_provable           |-> exact,
      aesop_provable           |-> aesop,
      error                    |-> err,
      verified_proofs          |-> vp,
      unverified_proofs        |-> uvp,
      neg_verified_proofs      |-> nvp,
      neg_unverified_proofs    |-> nuvp ]

\* Conjecture.update_proof: the resolved-proof field takes the new text
update_proof(field, g, text) == [field EXCEPT ![g] = text]

\* one more call of update_proof on candidate g
CountWrite(writes, g) == [writes EXCEPT ![g] = @ + 1]

\* stage 1: r["error"] is None and all(m["severity"] != "error" ...)
Compiles(r) ==
    /\ r.error = "None"
    /\ \A k \in 1..Len(r.messages) : r.messages[k].severity # "error"

RECURSIVE Stage1Pass(_, _)
Stage1Pass(compile_res, m) ==
    IF m = 0 THEN <<>>
    ELSE Stage1Pass(compile_res, m - 1)
         \o (IF Compiles(compile_res[m]) THEN <<m>> ELSE <<>>)

InitialError_Inverted(i, s1p) == IF i \in Range(s1p) THEN "compile_failed" ELSE "None"

\* error="compile_failed" if i not in stage1_pass else None
InitialError(i, s1p) == IF i \notin Range(s1p) THEN "compile_failed" ELSE "None"

InitialResult(i, s1p) ==
    ResultNew(i, FALSE, FALSE, FALSE, FALSE, FALSE, InitialError(i, s1p),
              NoneList, NoneList, NoneList, NoneList)

\* stage 2: any(m["severity"] == "info" and m["data"].startswith("Try this:") ...)
ExactFound(resp) ==
    \E k \in 1..Len(resp.messages) :
        /\ resp.messages[k].severity = "info"
        /\ StartsWith(resp.messages[k].data, TryThis)

AesopProved_AnySuggestion(resp) ==
    \E k \in 1..Len(resp.messages) :
        /\ resp.messages[k].severity = "info"
        /\ StartsWith(resp.messages[k].data, TryThis)

\* stage 3: ... and "sorry" not in m["data"]
AesopProved(resp) ==
    \E k \in 1..Len(resp.messages) :
        /\ resp.messages[k].severity = "info"
        /\ StartsWith(resp.messages[k].data, TryThis)
        /\ ~Contains(resp.messages[k].data, "sorry")

StaysOpen_Always(hit) == TRUE

\* `if found and not testing: ... else: stageN_pass.append(global_idx)`
StaysOpen(hit) == ~(hit /\ ~testing)

Shortest_First(texts) == texts[1]

\* min(texts, key=len): the first text of least length
Shortest(texts) ==
    texts[CHOOSE k \in 1..Len(texts) :
            /\ \A l \in 1..Len(texts) : Len(texts[k]) <= Len(texts[l])
            /\ \A l \in 1..(k - 1) : Len(texts[l]) > Len(texts[k])]

Provable_All(pr) == Len(pr.unverified) = 0

\* provable = len(proofs[conj_idx]["verified"]) > 0
Provable(pr) == Len(pr.verified) > 0

\* sorted(list(unverified_idx))
RECURSIVE SortedList(_)
SortedList(S) ==
    IF S = {} THEN <<>>
    ELSE LET lo == CHOOSE x \in S : \A y \in S : x <= y
         IN <<lo>> \o SortedList(S \ {lo})

ReindexedToOrig_Identity(sorted_unverified) ==
    [k \in 1..Len(sorted_unverified) |-> k]

\* reindexed_to_orig = {local_i: orig_i for local_i, orig_i in enumerate(sorted_unverified)}
ReindexedToOrig(sorted_unverified) == sorted_unverified

\* the answers of the verification service to a flat pass@k batch: one response
\* per request, in request order, each echoing the identity of its request; or
\* one response whose identity is garbled
ServiceReplies(ids) ==
    { [p \in 1..Len(ids) |-> Entry(ids[p], a[p].error, a[p].messages)] :
        a \in [1..Len(ids) -> PasskAnswers] }
    \cup
    { [p \in 1..Len(ids) |-> Entry(IF p = q[1] THEN q[2] ELSE ids[p], "None", <<>>)] :
        q \in (1..Len(ids)) \X BadIds }

\* completion j of statement i (both 0-based) of a flat batch verifies: the
\* service answered the request "i:j" and the answer passes _is_verified
Verifies(flat, i, j) ==
    \E p \in 1..Len(flat) :
        /\ flat[p].id = FormatId(i, j)
        /\ IsVerified(flat[p], FALSE)

HasBadId(flat) == \E p \in 1..Len(flat) : ~ParseId(flat[p].id).ok

\* the answers of batch_push_neg's round trip, per negated statement
PushNegAnswers ==
    { [error |-> "None", messages |-> <<Msg("info", <<"theorem neg_x : P := by">>)>>],
      [error |-> "None", messages |-> <<Msg("error", <<"push_neg made no progress">>)>>] }

\* next((m["data"] ... if m.get("severity") == "info"), None) is not None
HasInfo(r) == \E k \in 1..Len(r.messages) : r.messages[k].severity = "info"

\* stage 2's loop over exact_res
RECURSIVE ExactLoop(_, _, _)
ExactLoop(st, exact_res, k) ==
    IF k > Len(exact_res) THEN st
    ELSE LET g     == stage1_pass[k]
             found == ExactFound(exact_res[k])
             st1   == IF found /\ ~testing
                      THEN [st EXCEPT
                              !.proof   = update_proof(@, g, ExactTag),
                              !.writes  = CountWrite(@, g),
                              !.results[g] =
                                  ResultNew(g, FALSE, FALSE, FALSE, TRUE, FALSE, "None",
                                            <<ExactTag>>, NoneList, NoneList, NoneList)]
                      ELSE st
             st2   == IF StaysOpen(found)
                      THEN [st1 EXCEPT !.pass = Append(@, g)]
                      ELSE st1
         IN ExactLoop(st2, exact_res, k + 1)

\* stage 3's loop over aesop_res
RECURSIVE AesopLoop(_, _, _)
AesopLoop(st, aesop_res, k) ==
    IF k > Len(aesop_res) THEN st
    ELSE LET g      == stage2_pass[k]
             proved == AesopProved(aesop_res[k])
             st1    == IF proved /\ ~testing
                       THEN [st EXCEPT
                               !.proof   = update_proof(@, g, AesopTag),
                               !.writes  = CountWrite(@, g),
                               !.results[g] =
                                   ResultNew(g, FALSE, FALSE, FALSE, FALSE, TRUE, "None",
                                             <<AesopTag>>, NoneList, NoneList, NoneList)]
                       ELSE st
             st2    == IF StaysOpen(proved)
                       THEN [st1 EXCEPT !.pass = Append(@, g)]
                       ELSE st1
         IN AesopLoop(st2, aesop_res, k + 1)

\* stage 4's loop writing at the index local to stage3_pass
RECURSIVE ProveLoop_LocalIndex(_, _, _)
ProveLoop_LocalIndex(st, prs, i) ==
    IF i > Len(prs) THEN st
    ELSE LET g    == i
             text == IF Len(prs[i].verified) > 0
                     THEN Shortest(prs[i].verified)
                     ELSE SorryTag
         IN ProveLoop_LocalIndex(
              [st EXCEPT
                 !.proof   = update_proof(@, g, text),
                 !.writes  = CountWrite(@, g),
                 !.results[g] =
                     ResultNew(g, TRUE, Provable(prs[i]), FALSE, FALSE, FALSE, "None",
                               prs[i].verified, prs[i].unverified, NoneList, NoneList)],
              prs, i + 1)

\* stage 4's loop over proofs.keys()
RECURSIVE ProveLoop(_, _, _)
ProveLoop(st, prs, i) ==
    IF i > Len(prs) THEN st
    ELSE LET g    == stage3_pass[i]
             text == IF Len(prs[i].verified) > 0
                     THEN Shortest(prs[i].verified)
                     ELSE SorryTag
         IN ProveLoop(
              [st EXCEPT
                 !.proof   = update_proof(@, g, text),
                 !.writes  = CountWrite(@, g),
                 !.results[g] =
                     ResultNew(g, TRUE, Provable(prs[i]), FALSE, FALSE, FALSE, "None",
                               prs[i].verified, prs[i].unverified, NoneList, NoneList)],
              prs, i + 1)

\* the negation block's loop over neg_proofs.keys()
RECURSIVE NegLoop(_, _, _, _)
NegLoop(st, neg_prs, reindexed_to_orig, k) ==
    IF k > Len(neg_prs) THEN st
    ELSE LET orig == reindexed_to_orig[k]
             g    == stage3_pass[orig]
             text == IF Len(neg_prs[k].verified) > 0
                     THEN Shortest(neg_prs[k].verified)
                     ELSE SorryTag
         IN NegLoop(
              [st EXCEPT
                 !.proof   = update_proof(@, g, text),
                 !.writes  = CountWrite(@, g),
                 !.results[g] =
                     ResultNew(g, TRUE, FALSE, Provable(neg_prs[k]), FALSE, FALSE, "None",
                               proofs[orig].verified, proofs[orig].unverified,
                               neg_prs[k].verified, neg_prs[k].unverified)],
              neg_prs, reindexed_to_orig, k + 1)

Loop0(pass) == [results |-> results, proof |-> proof, writes |-> proof_writes,
                pass |-> pass]

\* one round trip of _verify_batch: a single call of the client's check with
\* the whole batch
Issue_Twice(log, stage, batch) ==
    log \o <<[stage |-> stage, batch |-> batch], [stage |-> stage, batch |-> batch]>>

Issue(log, stage, batch) == Append(log, [stage |-> stage, batch |-> batch])

Submit(S, stage) ==
    [g \in 1..nconj |-> IF g \in S THEN submitted[g] \cup {stage} ELSE submitted[g]]

-----------------------------------------------------------------------------
(* The cascade: one action per stage of ConjectureEvaluator.evaluate *)

InitCascade ==
    /\ pc = "compile"
    /\ testing \in BOOLEAN
    /\ nconj \in 1..MaxBatch
    /\ stage1_pass = <<>>
    /\ stage2_pass = <<>>
    /\ stage3_pass = <<>>
    /\ results = <<>>
    /\ proofs = <<>>
    /\ unverified_idx = {}
    /\ proof = [g \in 1..nconj |-> NoProof]
    /\ proof_writes = [g \in 1..nconj |-> 0]
    /\ submitted = [g \in 1..nconj |-> {}]
    /\ fwd_ok = [g \in 1..nconj |-> <<>>]
    /\ neg_ok = [g \in 1..nconj |-> <<>>]
    /\ bad_id_seen = FALSE
    /\ requests = <<>>
    /\ aesop_seen = [g \in 1..nconj |-> EmptyEntry]

\* stage 1: compile_only and the initial results
CompileStage ==
    /\ pc = "compile"
    /\ \E compile_res \in [1..nconj -> CompileAnswers] :
         LET s1p == Stage1Pass(compile_res, Len(compile_res)) IN
         /\ stage1_pass' = s1p
         /\ results' = [i \in 1..nconj |-> InitialResult(i, s1p)]
    /\ submitted' = Submit(1..nconj, "compile")
    /\ requests' = Issue(requests, "compile", 1..nconj)
    /\ pc' = "exact"
    /\ UNCHANGED <<testing, nconj, stage2_pass, stage3_pass, proofs, unverified_idx,
                   proof, proof_writes, fwd_ok, neg_ok, bad_id_seen, aesop_seen>>
    /\ UNCHANGED outsideCascade

\* stage 2: exact?
ExactStage ==
    /\ pc = "exact"
    /\ IF stage1_pass = <<>>
       THEN UNCHANGED <<results, proof, proof_writes, stage2_pass, submitted,
                        requests>>
       ELSE \E exact_res \in [1..Len(stage1_pass) -> ExactAnswers] :
            \E st \in {ExactLoop(Loop0(<<>>), exact_res, 1)} :
              /\ results' = st.results
              /\ proof' = st.proof
              /\ proof_writes' = st.writes
              /\ stage2_pass' = st.pass
              /\ submitted' = Submit(Range(stage1_pass), "exact")
              /\ requests' = Issue(requests, "exact", Range(stage1_pass))
    /\ pc' = "aesop"
    /\ UNCHANGED <<testing, nconj, stage1_pass, stage3_pass, proofs, unverified_idx,
                   fwd_ok, neg_ok, bad_id_seen, aesop_seen>>
    /\ UNCHANGED outsideCascade

\* stage 3: aesop?
AesopStage ==
    /\ pc = "aesop"
    /\ IF stage2_pass = <<>>
       THEN UNCHANGED <<results, proof, proof_writes, stage3_pass, submitted,
                        requests, aesop_seen>>
       ELSE \E aesop_res \in [1..Len(stage2_pass) -> AesopAnswers] :
            \E st \in {AesopLoop(Loop0(<<>>), aesop_res, 1)} :
              /\ results' = st.results
              /\ proof' = st.proof
              /\ proof_writes' = st.writes
              /\ stage3_pass' = st.pass
              /\ submitted' = Submit(Range(stage2_pass), "aesop")
              /\ requests' = Issue(requests, "aesop", Range(stage2_pass))
              /\ aesop_seen' = [g \in 1..nconj |->
                    IF g \in Range(stage2_pass)
                    THEN aesop_res[CHOOSE k \in 1..Len(stage2_pass) : stage2_pass[k] = g]
                    ELSE aesop_seen[g]]
    /\ pc' = "prove"
    /\ UNCHANGED <<testing, nconj, stage1_pass, stage2_pass, proofs, unverified_idx,
                   fwd_ok, neg_ok, bad_id_seen>>
    /\ UNCHANGED outsideCascade

\* stage 4: generate_k, verify_proofs_passk, _evaluate_proofs_passk and the
\* classification of every candidate of stage3_pass
ProveStage ==
    /\ pc = "prove"
    /\ IF stage3_pass = <<>>
       THEN /\ pc' = "returned"
            /\ UNCHANGED <<results, proofs, unverified_idx, proof, proof_writes,
                           submitted, fwd_ok, bad_id_seen, requests>>
       ELSE \E forward_proofs_k \in [1..Len(stage3_pass) -> CompletionLists] :
            \E flat \in ServiceReplies(PasskIds(forward_proofs_k, 1)) :
            \E vr \in {VerifyProofsPassk(Len(stage3_pass), flat)} :
              /\ submitted' = Submit(Range(stage3_pass), "prove")
              /\ requests' = Issue(requests, "prove", Range(stage3_pass))
              /\ bad_id_seen' = (bad_id_seen \/ HasBadId(flat))
              /\ IF vr.raised
                 THEN /\ pc' = "raised"
                      /\ UNCHANGED <<results, proofs, unverified_idx, proof,
                                     proof_writes, fwd_ok>>
                 ELSE \E ev \in {EvaluateProofsPassk(vr.grouped, forward_proofs_k, FALSE)} :
                      \E st \in {ProveLoop(Loop0(<<>>), ev.proofs, 1)} :
                         /\ pc' = "negate"
                         /\ results' = st.results
                         /\ proof' = st.proof
                         /\ proof_writes' = st.writes
                         /\ proofs' = ev.proofs
                         /\ unverified_idx' = ev.unverified_idx
                         /\ fwd_ok' = [g \in 1..nconj |->
                               IF g \in Range(stage3_pass)
                               THEN LET i == CHOOSE i \in 1..Len(stage3_pass) :
                                                stage3_pass[i] = g
                                    IN [j \in 1..Len(forward_proofs_k[i]) |->
                                           Verifies(flat, i - 1, j - 1)]
                               ELSE fwd_ok[g]]
    /\ aesop_seen' = [g \in 1..nconj |-> EmptyEntry]
    /\ UNCHANGED <<testing, nconj, stage1_pass, stage2_pass, stage3_pass, neg_ok>>
    /\ UNCHANGED outsideCascade

\* the negation block: batch_push_neg, generate_k and pass@k on the negations of
\* the candidates of unverified_idx
NegateStage ==
    /\ pc = "negate"
    /\ IF unverified_idx = {}
       THEN /\ pc' = "returned"
            /\ UNCHANGED <<results, proof, proof_writes, submitted, neg_ok, bad_id_seen,
                           requests>>
       ELSE LET sorted_unverified == SortedList(unverified_idx)
                m == Len(sorted_unverified)
                reindexed_to_orig == ReindexedToOrig(sorted_unverified)
                sent == {stage3_pass[sorted_unverified[k]] : k \in 1..m}
            IN
            /\ submitted' = Submit(sent, "negate")
            /\ \E push \in [1..m -> PushNegAnswers] :
                 IF \E k \in 1..m : ~HasInfo(push[k])
                 THEN /\ pc' = "raised"          \* RuntimeError("push_neg failed ...")
                      /\ requests' = Issue(requests, "push_neg", sent)
                      /\ UNCHANGED <<results, proof, proof_writes, neg_ok, bad_id_seen>>
                 ELSE \E neg_proofs_k \in [1..m -> CompletionLists] :
                      \E flat \in ServiceReplies(PasskIds(neg_proofs_k, 1)) :
                      \E vr \in {VerifyProofsPassk(m, flat)} :
                        /\ bad_id_seen' = (bad_id_seen \/ HasBadId(flat))
                        /\ requests' = Issue(Issue(requests, "push_neg", sent),
                                             "negate", sent)
                        /\ IF vr.raised
                           THEN /\ pc' = "raised"
                                /\ UNCHANGED <<results, proof, proof_writes, neg_ok>>
                           ELSE \E ev \in {EvaluateProofsPassk(vr.grouped, neg_proofs_k,
                                                                FALSE)} :
                                \E st \in {NegLoop(Loop0(<<>>), ev.proofs,
                                                   reindexed_to_orig, 1)} :
                                   /\ pc' = "returned"
                                   /\ results' = st.results
                                   /\ proof' = st.proof
                                   /\ proof_writes' = st.writes
                                   /\ neg_ok' = [g \in 1..nconj |->
                                        IF g \in sent
                                        THEN LET k == CHOOSE k \in 1..m :
                                                   stage3_pass[sorted_unverified[k]] = g
                                             IN [j \in 1..Len(neg_proofs_k[k]) |->
                                                    Verifies(flat, k - 1, j - 1)]
                                        ELSE neg_ok[g]]
    /\ UNCHANGED <<testing, nconj, stage1_pass, stage2_pass, stage3_pass, proofs,
                   unverified_idx, fwd_ok, aesop_seen>>
    /\ UNCHANGED outsideCascade

\* the batched call of the stage fails as a whole (timeout, transport error):
\* the exception leaves evaluate
RpcFails ==
    /\ \/ pc = "compile"
       \/ pc = "exact"  /\ stage1_pass # <<>>
       \/ pc = "aesop"  /\ stage2_pass # <<>>
       \/ pc = "prove"  /\ stage3_pass # <<>>
       \/ pc = "negate" /\ unverified_idx # {}
    /\ pc' = "raised"
    /\ UNCHANGED <<testing, nconj, stage1_pass, stage2_pass, stage3_pass, results,
                   proofs, unverified_idx, proof, proof_writes, submitted, fwd_ok,
                   neg_ok, bad_id_seen, requests, aesop_seen>>
    /\ UNCHANGED outsideCascade

NextCascade ==
    \/ CompileStage
    \/ ExactStage
    \/ AesopStage
    \/ ProveStage
    \/ NegateStage
    \/ RpcFails

-----------------------------------------------------------------------------
(* map_archive.py: configuration, feature values and _feature_key *)

\* MapConfig.dims
Dims == <<"novelty", "difficulty", "depth", "provability_estimate">>

DimSet == Range(Dims)

\* MapConfig.bins of the default configuration
DefaultBins == [d \in DimSet |-> 10]

\* a configuration whose dimensions have different bin counts
MixedBins == ("novelty" :> 2) @@ ("difficulty" :> 3) @@ ("depth" :> 5)
             @@ ("provability_estimate" :> 10)

\* A feature value: a number (scores are whole numbers here), NaN, an infinity,
\* a value that is no number, None, or no entry at all for the dimension.
Num(v)   == [tag |-> "num",    v |-> v]
NaN      == [tag |-> "nan",    v |-> 0]
PosInf   == [tag |-> "inf",    v |-> 0]
NegInf   == [tag |-> "ninf",   v |-> 0]
NotANum  == [tag |-> "str",    v |-> 0]
NoneVal  == [tag |-> "none",   v |-> 0]
Absent   == [tag |-> "absent", v |-> 0]

\* `not features`: the dict holds no entry
IsEmptyFeatures(features) == \A d \in DimSet : features[d] = Absent

\* val is None or not isinstance(val, (int, float))
IsInvalidFeature(val) == val.tag \in {"absent", "none", "str"}

\* the NaN check: score_f != score_f replaces the score by 0.0
ScoreF(val) == IF val.tag = "nan" THEN Num(0) ELSE val

\* max(0.0, min(score_f, 100.0))
ClampScore(x) ==
    IF x.tag = "inf" THEN 100
    ELSE IF x.tag = "ninf" THEN 0
    ELSE IF x.v > 100 THEN 100
    ELSE IF x.v < 0 THEN 0
    ELSE x.v

Clamp_None(v, lo, hi) == v

\* _clamp: max(lo, min(v, hi))
Clamp(v, lo, hi) ==
    LET m == IF v <= hi THEN v ELSE hi
    IN IF lo >= m THEN lo ELSE m

\* idx = _clamp(int((score_f / 100.0) * n_bins), 0, n_bins - 1)
BinIndex(val, n_bins) ==
    Clamp((ClampScore(ScoreF(val)) * n_bins) \div 100, 0, n_bins - 1)

\* the loop over _cfg.dims: an invalid feature is passed over (continue)
RECURSIVE KeyIndices(_, _, _)
KeyIndices(bins, features, p) ==
    IF p > Len(Dims) THEN <<>>
    ELSE (IF IsInvalidFeature(features[Dims[p]])
          THEN <<>>
          ELSE <<BinIndex(features[Dims[p]], bins[Dims[p]])>>)
         \o KeyIndices(bins, features, p + 1)

\* _feature_key; the key of an empty feature map is tuple([0.0] * 4), which as
\* a dict key equals (0, 0, 0, 0)
FeatureKey(bins, features) ==
    IF IsEmptyFeatures(features) THEN <<0, 0, 0, 0>>
    ELSE KeyIndices(bins, features, 1)

-----------------------------------------------------------------------------
(* One call of _feature_key on a drawn feature map *)

KeyFeatureValues ==
    { Num(-5), Num(37), Num(100), Num(250), NaN, PosInf, NegInf,
      NotANum, NoneVal, Absent }

InitKey ==
    /\ fk_entry \in [DimSet -> KeyFeatureValues]
    /\ fk_cfg \in {DefaultBins, MixedBins}
    /\ fk_key = <<>>
    /\ fk_done = FALSE

DeriveKey ==
    /\ ~fk_done
    /\ fk_key' = FeatureKey(fk_cfg, fk_entry)
    /\ fk_done' = TRUE
    /\ UNCHANGED <<fk_entry, fk_cfg>>
    /\ UNCHANGED outsideKey

NextKey == DeriveKey

-----------------------------------------------------------------------------
(* map_archive.py: the archive *)

\* the default MapConfig, and one that prunes stale elites
DefaultConfig == [bins |-> DefaultBins, prune_threshold |-> 0, stale_after_sec |-> 0]
StaleConfig   == [bins |-> DefaultBins, prune_threshold |-> 0, stale_after_sec |-> 1]
ArchiveConfigs == {DefaultConfig, StaleConfig}

\* fitness scores, in units in which the pruning threshold 0.0 is 0
FitnessValues == {-1, 1}

LowMap   == [d \in DimSet |-> Num(5)]
EmptyMap == [d \in DimSet |-> Absent]
PartMap  == [LowMap EXCEPT !["depth"] = Absent]
ArchiveFeatureMaps == {LowMap, EmptyMap, PartMap}

\* the entries passed to update_elites: with or without 'fitness_score', with
\* or without a 'timestamp' of their own
ArchiveEntries ==
    { e \in [ has_fitness   : BOOLEAN,
              fitness_score : FitnessValues \cup {0},
              has_timestamp : BOOLEAN,
              timestamp     : 0..MaxTime,
              map_scores    : ArchiveFeatureMaps ] :
        /\ e.has_fitness <=> e.fitness_score \in FitnessValues
        /\ ~e.has_timestamp => e.timestamp = 0
        /\ ~e.has_fitness => ~e.has_timestamp /\ e.map_scores = LowMap }

\* entry.setdefault("timestamp", int(time.time())); the record as it is stored
Stamped(e) ==
    [ fitness_score |-> e.fitness_score,
      timestamp     |-> IF e.has_timestamp THEN e.timestamp ELSE now,
      map_scores    |-> e.map_scores ]

Replaces_TieWins(entry, has_inc, incumbent) ==
    IF ~has_inc THEN TRUE
    ELSE IF entry.fitness_score > incumbent.fitness_score THEN TRUE
    ELSE /\ entry.fitness_score = incumbent.fitness_score
         /\ entry.timestamp >= incumbent.timestamp

Replaces_FirstWins(entry, has_inc, incumbent) == ~has_inc

Replaces_ScoreOnly(entry, has_inc, incumbent) ==
    IF ~has_inc THEN TRUE
    ELSE entry.fitness_score > incumbent.fitness_score

\* the replacement rule of update_elites
Replaces(entry, has_inc, incumbent) ==
    IF ~has_inc THEN TRUE
    ELSE IF entry.fitness_score > incumbent.fitness_score THEN TRUE
    ELSE /\ entry.fitness_score = incumbent.fitness_score
         /\ entry.timestamp > incumbent.timestamp

\* _elite_map[key] = entry
Put(m, k, v) == [x \in (DOMAIN m) \cup {k} |-> IF x = k THEN v ELSE m[x]]

\* for k in to_delete: _elite_map.pop(k, None)
Without(m, ks) == [x \in (DOMAIN m) \ ks |-> m[x]]

\* (score, timestamp) a is better than b
Better(a, b) ==
    \/ a.fitness_score > b.fitness_score
    \/ a.fitness_score = b.fitness_score /\ a.timestamp > b.timestamp

Pair(rec) == [fitness_score |-> rec.fitness_score, timestamp |-> rec.timestamp]

\* the best pair per key once `entry` has been passed to update_elites
Noted(best, key, entry) ==
    IF key \in DOMAIN best /\ ~Better(Pair(entry), best[key])
    THEN best
    ELSE Put(best, key, Pair(entry))

\* how an insert ended, for the record of the last operation
InsertOutcome(entry, key) ==
    IF key \notin DOMAIN elite_map THEN "filled"
    ELSE LET inc == elite_map[key] IN
         IF entry.fitness_score > inc.fitness_score THEN "fitter"
         ELSE IF entry.fitness_score < inc.fitness_score THEN "kept_lower"
         ELSE IF entry.timestamp > inc.timestamp THEN "newer"
         ELSE IF entry.timestamp < inc.timestamp THEN "kept_older"
         ELSE "kept_same"

InitArchive ==
    /\ cfg \in ArchiveConfigs
    /\ elite_map = <<>>
    /\ dirty = FALSE
    /\ now = 0
    /\ best_seen = <<>>
    /\ best_since = <<>>
    /\ last_op = [op |-> "init", why |-> "none"]

\* update_elites that drops the elites below the threshold while it inserts
UpdateElitesIn_Pruning(e) ==
    /\ IF ~e.has_fitness
       THEN UNCHANGED <<elite_map, dirty>>
       ELSE LET entry   == Stamped(e)
                key     == FeatureKey(cfg.bins, entry.map_scores)
                has_inc == key \in DOMAIN elite_map
                replaced == Replaces(entry, has_inc,
                                     IF has_inc THEN elite_map[key] ELSE entry)
                kept    == Without(elite_map,
                               { k \in DOMAIN elite_map :
                                   elite_map[k].fitness_score < entry.fitness_score })
            IN IF replaced
               THEN /\ elite_map' = Put(kept, key, entry)
                    /\ dirty' = TRUE
               ELSE UNCHANGED <<elite_map, dirty>>
    /\ UNCHANGED <<cfg, now>>

\* update_elites(entry): what it does to the archive
UpdateElitesIn(e) ==
    /\ IF ~e.has_fitness
       THEN UNCHANGED <<elite_map, dirty>>
       ELSE LET entry   == Stamped(e)
                key     == FeatureKey(cfg.bins, entry.map_scores)
                has_inc == key \in DOMAIN elite_map
                replaced == Replaces(entry, has_inc,
                                     IF has_inc THEN elite_map[key] ELSE entry)
            IN IF replaced
               THEN /\ elite_map' = Put(elite_map, key, entry)
                    /\ dirty' = TRUE
               ELSE UNCHANGED <<elite_map, dirty>>
    /\ UNCHANGED <<cfg, now>>

\* update_elites(entry)
UpdateElites(e) ==
    /\ UpdateElitesIn(e)
    /\ UNCHANGED outsideArchive

ToDelete_AgeExceeds ==
    { key \in DOMAIN elite_map :
        \/ elite_map[key].fitness_score < cfg.prune_threshold
        \/ /\ cfg.stale_after_sec > 0
           /\ (now - elite_map[key].timestamp) > cfg.stale_after_sec }

\* the keys prune_underperformers collects in to_delete
ToDelete ==
    { key \in DOMAIN elite_map :
        LET is_under == elite_map[key].fitness_score < cfg.prune_threshold
            is_stale == /\ cfg.stale_after_sec > 0
                        /\ (now - elite_map[key].timestamp) >= cfg.stale_after_sec
        IN is_under \/ is_stale }

\* prune_underperformers()
PruneUnderperformers ==
    /\ IF DOMAIN elite_map = {} \/ ToDelete = {}
       THEN UNCHANGED <<elite_map, dirty>>
       ELSE /\ elite_map' = Without(elite_map, ToDelete)
            /\ dirty' = TRUE
    /\ UNCHANGED <<cfg, now>>
    /\ UNCHANGED outsideArchive

\* clear_all_elites()
ClearAllElites ==
    /\ elite_map' = <<>>
    /\ dirty' = TRUE
    /\ UNCHANGED <<cfg, now>>
    /\ UNCHANGED outsideArchive

\* time passes
Tick ==
    /\ now < MaxTime
    /\ now' = now + 1
    /\ UNCHANGED <<cfg, elite_map, dirty>>
    /\ UNCHANGED outsideArchive

\* The archive with a record of the operation that ran last
ArchInsert ==
    \E e \in ArchiveEntries :
        /\ UpdateElites(e)
        /\ last_op' = [op |-> "insert",
                       why |-> IF e.has_fitness
                               THEN InsertOutcome(Stamped(e),
                                        FeatureKey(cfg.bins, e.map_scores))
                               ELSE "skipped"]
        /\ UNCHANGED <<best_seen, best_since>>

ArchPrune ==
    /\ PruneUnderperformers
    /\ last_op' = [op |-> "prune", why |-> IF ToDelete = {} THEN "none" ELSE "removed"]
    /\ UNCHANGED <<best_seen, best_since>>

ArchReset ==
    /\ ClearAllElites
    /\ last_op' = [op |-> "reset", why |-> "none"]
    /\ UNCHANGED <<best_seen, best_since>>

ArchTick ==
    /\ Tick
    /\ UNCHANGED <<best_seen, best_since, last_op>>

NextArchive ==
    \/ ArchInsert
    \/ ArchPrune
    \/ ArchReset
    \/ ArchTick

\* The archive with the history of the records passed to update_elites
HistInsert ==
    \E e \in ArchiveEntries :
        /\ UpdateElites(e)
        /\ IF e.has_fitness
           THEN LET key == FeatureKey(cfg.bins, e.map_scores) IN
                /\ best_seen' = Noted(best_seen, key, Stamped(e))
                /\ best_since' = Noted(best_since, key, Stamped(e))
           ELSE UNCHANGED <<best_seen, best_since>>
        /\ UNCHANGED last_op

HistPrune ==
    /\ PruneUnderperformers
    /\ best_since' = Without(best_since, ToDelete)
    /\ UNCHANGED <<best_seen, last_op>>

HistReset ==
    /\ ClearAllElites
    /\ best_since' = <<>>
    /\ UNCHANGED <<best_seen, last_op>>

HistTick ==
    /\ Tick
    /\ UNCHANGED <<best_seen, best_since, last_op>>

NextArchiveHist ==
    \/ HistInsert
    \/ HistPrune
    \/ HistReset
    \/ HistTick

-----------------------------------------------------------------------------
(* Specifications: each part of the program on its own, the others at rest *)

IdleCascade ==
    /\ pc = "idle"
    /\ testing = FALSE
    /\ nconj = 0
    /\ stage1_pass = <<>>
    /\ stage2_pass = <<>>
    /\ stage3_pass = <<>>
    /\ results = <<>>
    /\ proofs = <<>>
    /\ unverified_idx = {}
    /\ proof = <<>>
    /\ proof_writes = <<>>
    /\ submitted = <<>>
    /\ fwd_ok = <<>>
    /\ neg_ok = <<>>
    /\ bad_id_seen = FALSE
    /\ requests = <<>>
    /\ aesop_seen = <<>>

IdleArchive ==
    /\ cfg = DefaultConfig
    /\ elite_map = <<>>
    /\ dirty = FALSE
    /\ now = 0
    /\ best_seen = <<>>
    /\ best_since = <<>>
    /\ last_op = [op |-> "init", why |-> "none"]

IdleKey ==
    /\ fk_entry = EmptyMap
    /\ fk_cfg = DefaultBins
    /\ fk_key = <<>>
    /\ fk_done = FALSE

\* no file at a path
NoFile == [there |-> FALSE, kind |-> "none", data |-> <<>>]

IdleStore ==
    /\ sampled = [k |-> 0, out |-> <<>>]
    /\ float_keys = {}
    /\ files = [json |-> NoFile, tmp |-> NoFile]
    /\ persist_pc = "idle"
    /\ snapshots = [prev |-> NoFile, new |-> NoFile]
    /\ load_note = "none"

\* _op_stats[NOVEL_ARM] = [0, 0]
IdleSched ==
    /\ op_stats = [op \in {"_NOVEL_"} |-> <<0, 0>>]
    /\ ledger = <<>>
    /\ chosen = [k |-> 0, how |-> "none", out |-> <<>>]
    /\ next_uuid = 1

IdleRun ==
    /\ iteration = [pc |-> "idle"]
    /\ call_in = <<>>
    /\ call_out = <<>>
    /\ call_done = FALSE

IdleRest == IdleStore /\ IdleSched /\ IdleRun

StartCascade == InitCascade /\ IdleArchive /\ IdleKey /\ IdleRest

StartArchive == IdleCascade /\ InitArchive /\ IdleKey /\ IdleRest

StartKey == IdleCascade /\ IdleArchive /\ InitKey /\ IdleRest

SpecCascade == StartCascade /\ [][NextCascade]_vars

SpecArchive == StartArchive /\ [][NextArchive]_vars

SpecArchiveHist == StartArchive /\ [][NextArchiveHist]_vars

SpecKey == StartKey /\ [][NextKey]_vars

Init == InitCascade /\ InitArchive /\ InitKey /\ IdleRest

Next == NextCascade \/ NextArchive \/ NextArchiveHist \/ NextKey

Spec == Init /\ [][Next]_vars

-----------------------------------------------------------------------------
(* Properties of the cascade *)

\* the outcome a returned result stands for
IsCompileFailed(r)       == r.error = "compile_failed"
IsTriviallyProvable(r)   == r.exact_provable \/ r.aesop_provable
IsNonTriviallyProvable(r) == r.non_trivial_provable
IsLikelyFalse(r)         == r.non_trivial_neg_provable
IsInconclusive(r) ==
    /\ r.passed_triviality_checks
    /\ r.error = "None"
    /\ ~r.exact_provable /\ ~r.aesop_provable
    /\ ~r.non_trivial_provable /\ ~r.non_trivial_neg_provable

OutcomesOf(r) ==
    (IF IsCompileFailed(r) THEN {"CompileFailed"} ELSE {})
    \cup (IF IsTriviallyProvable(r) THEN {"TriviallyProvable"} ELSE {})
    \cup (IF IsNonTriviallyProvable(r) THEN {"NonTriviallyProvable"} ELSE {})
    \cup (IF IsLikelyFalse(r) THEN {"LikelyFalse"} ELSE {})
    \cup (IF IsInconclusive(r) THEN {"Inconclusive"} ELSE {})

FlagsOf(r) ==
    (IF r.error = "compile_failed" THEN {"error"} ELSE {})
    \cup (IF r.exact_provable THEN {"exact_provable"} ELSE {})
    \cup (IF r.aesop_provable THEN {"aesop_provable"} ELSE {})
    \cup (IF r.non_trivial_provable THEN {"non_trivial_provable"} ELSE {})
    \cup (IF r.non_trivial_neg_provable THEN {"non_trivial_neg_provable"} ELSE {})

AnyTrue(verdicts) == \E j \in 1..Len(verdicts) : verdicts[j]

\* C1: when evaluate returns, results holds one result per input candidate, in
\* input order, every result stands for exactly one of the five outcomes, and
\* no result has two of the flags error=compile_failed, exact_provable,
\* aesop_provable, non_trivial_provable, non_trivial_neg_provable set.
C1_OneOutcomePerCandidate ==
    pc = "returned" =>
        /\ Len(results) = nconj
        /\ \A g \in 1..nconj :
              /\ results[g].conjecture = g
              /\ Cardinality(OutcomesOf(results[g])) = 1
              /\ Cardinality(FlagsOf(results[g])) <= 1

\* a run of two candidates returns with one compile failure and one candidate
\* the negation stage classified
C1_Witness ==
    /\ pc = "returned"
    /\ nconj = 2
    /\ IsCompileFailed(results[1])
    /\ IsLikelyFalse(results[2])

\* C2: a candidate that reached a terminal outcome is in the request batch of
\* no later stage: a compile failure is submitted to the compile stage only, a
\* candidate exact? proved to neither aesop?, the proof search nor the negation
\* search, a candidate aesop? proved to neither search, and a candidate the
\* proof search proved not to the negation search.
C2_TerminalNeverResubmitted ==
    \A g \in DOMAIN results :
        /\ IsCompileFailed(results[g]) => submitted[g] \subseteq {"compile"}
        /\ results[g].exact_provable =>
              submitted[g] \cap {"aesop", "prove", "negate"} = {}
        /\ results[g].aesop_provable =>
              submitted[g] \cap {"prove", "negate"} = {}
        /\ IsNonTriviallyProvable(results[g]) => "negate" \notin submitted[g]

\* the negation search ran for one candidate while the other one had been
\* proved by exact?
C2_Witness ==
    /\ pc = "returned"
    /\ \E g \in DOMAIN results : results[g].exact_provable
    /\ \E g \in DOMAIN results : "negate" \in submitted[g]

\* C3: once the proof search has classified its batch, a candidate of that
\* batch is non_trivial_provable exactly if at least one of its completions
\* verifies; with no verified completion it never is.
C3_ProvableIffSomeCompletionVerifies ==
    pc \in {"negate", "returned"} =>
        \A g \in Range(stage3_pass) :
            IsNonTriviallyProvable(results[g]) <=> AnyTrue(fwd_ok[g])

\* the proof search proved a candidate of which one completion verified and
\* the other did not
C3_Witness ==
    /\ pc = "returned"
    /\ \E g \in Range(stage3_pass) :
          /\ IsNonTriviallyProvable(results[g])
          /\ \E j \in 1..Len(fwd_ok[g]) : ~fwd_ok[g][j]

\* C4: a candidate is in the negation search's batch only if none of its
\* forward completions verified; when evaluate returns, such a candidate is
\* LikelyFalse exactly if a completion of its negation verified and is
\* Inconclusive otherwise; a candidate with a verified forward completion is
\* returned as NonTriviallyProvable, with the proofs the proof search recorded.
C4_NegationOutcome ==
    \A g \in DOMAIN results :
        /\ "negate" \in submitted[g] =>
              "prove" \in submitted[g] /\ ~AnyTrue(fwd_ok[g])
        /\ (pc = "returned" /\ "negate" \in submitted[g]) =>
              /\ IsLikelyFalse(results[g]) <=> AnyTrue(neg_ok[g])
              /\ ~AnyTrue(neg_ok[g]) => IsInconclusive(results[g])
              /\ ~IsNonTriviallyProvable(results[g])
        /\ (pc = "returned" /\ AnyTrue(fwd_ok[g])) =>
              /\ IsNonTriviallyProvable(results[g])
              /\ ~IsLikelyFalse(results[g])
              /\ results[g].neg_verified_proofs = NoneList

\* of two candidates of the proof search the first was proved, the second went
\* through the negation search and came back LikelyFalse
C4_Witness ==
    /\ pc = "returned"
    /\ Len(stage3_pass) = 2
    /\ IsNonTriviallyProvable(results[stage3_pass[1]])
    /\ IsLikelyFalse(results[stage3_pass[2]])

\* C5: once a pass@k response has carried an identity that does not parse as
\* "i:j", the run has raised: it neither goes on to a later stage nor returns.
C5_BadIdentityIsFatal == bad_id_seen => pc = "raised"

\* the garbled identity came in the negation search's batch
C5_Witness ==
    /\ bad_id_seen
    /\ pc = "raised"
    /\ \E g \in DOMAIN submitted : "negate" \in submitted[g]

\* C6: update_proof is called at most once per candidate per run, and exactly
\* once on a candidate returned as TriviallyProvable, NonTriviallyProvable or
\* LikelyFalse.
C6_ProofWrittenAtMostOnce ==
    /\ \A g \in DOMAIN proof_writes : proof_writes[g] <= 1
    /\ pc = "returned" =>
          \A g \in 1..nconj :
              (\/ IsTriviallyProvable(results[g])
               \/ IsNonTriviallyProvable(results[g])
               \/ IsLikelyFalse(results[g])) => proof_writes[g] = 1

-----------------------------------------------------------------------------
(* Properties of the archive *)

\* the niche of an entry passed to update_elites
NicheOf(e) == FeatureKey(cfg.bins, e.map_scores)

\* the entry beats the record r: strictly greater score, or equal score and
\* strictly newer timestamp
Beats(e, r) ==
    \/ Stamped(e).fitness_score > r.fitness_score
    \/ /\ Stamped(e).fitness_score = r.fitness_score
       /\ Stamped(e).timestamp > r.timestamp

\* C7: a call of update_elites on an entry with a fitness_score stores the entry
\* at its niche if the niche is empty, or the entry's score is strictly greater
\* than the incumbent's, or the scores are equal and the entry's timestamp is
\* strictly newer; in every other case the map is left as it was.
C7_ReplaceRule ==
    [][ \A e \in ArchiveEntries :
          (UpdateElites(e) /\ e.has_fitness) =>
              IF \/ NicheOf(e) \notin DOMAIN elite_map
                 \/ Beats(e, elite_map[NicheOf(e)])
              THEN elite_map' = Put(elite_map, NicheOf(e), Stamped(e))
              ELSE elite_map' = elite_map ]_vars

\* the last insert met an incumbent of equal score and newer timestamp, which
\* was kept
C7_Witness ==
    /\ last_op = [op |-> "insert", why |-> "kept_older"]
    /\ \E k \in DOMAIN elite_map : elite_map[k].timestamp = MaxTime

\* C8: a call of update_elites on an entry whose fitness_score and timestamp
\* equal those of the incumbent at its niche leaves the map unchanged, so any
\* number of such calls does.
C8_ReplayLeavesMapUnchanged ==
    [][ \A e \in ArchiveEntries :
          (/\ UpdateElites(e)
           /\ e.has_fitness
           /\ NicheOf(e) \in DOMAIN elite_map
           /\ Pair(Stamped(e)) = Pair(elite_map[NicheOf(e)]))
          => elite_map' = elite_map ]_vars

\* the last insert replayed the (score, timestamp) of the incumbent
C8_Witness ==
    /\ last_op = [op |-> "insert", why |-> "kept_same"]
    /\ DOMAIN elite_map # {}

\* C9 as stated: every key of the map holds the best (score, timestamp) of all
\* records with that key passed to update_elites so far.
C9_BestOfAllInserted ==
    \A k \in DOMAIN elite_map :
        /\ k \in DOMAIN best_seen
        /\ Pair(elite_map[k]) = best_seen[k]

\* C9 as amended: the keys of the map are the keys inserted and not removed
\* since, and every key holds the best (score, timestamp) of the records with
\* that key passed to update_elites since prune or reset last removed the key.
C9_BestSinceLastRemoval ==
    /\ DOMAIN elite_map = DOMAIN best_since
    /\ \A k \in DOMAIN elite_map : Pair(elite_map[k]) = best_since[k]

\* a key holds a record that is worse than one inserted before the key was
\* removed
C9_Witness ==
    \E k \in DOMAIN elite_map :
        /\ k \in DOMAIN best_seen
        /\ Better(best_seen[k], Pair(elite_map[k]))

-----------------------------------------------------------------------------
(* Properties of the niche key *)

\* the dimensions _feature_key derives an index for, in the order of the key
KeptDims(features) ==
    LET valid(d) == ~IsInvalidFeature(features[d])
    IN SelectSeq(Dims, valid)

\* C10: every index of a derived key lies between 0 and the bin count, less
\* one, of the dimension it was derived for, whatever the scores: below 0,
\* above 100, infinite or NaN.
C10_IndicesWithinBins ==
    fk_done =>
        LET dims == IF IsEmptyFeatures(fk_entry) THEN Dims ELSE KeptDims(fk_entry)
        IN /\ Len(fk_key) = Len(dims)
           /\ \A p \in 1..Len(fk_key) :
                 /\ fk_key[p] >= 0
                 /\ fk_key[p] <= fk_cfg[dims[p]] - 1

\* a key derived from NaN, an infinity, a negative score and a score above 100
\* under bin counts that differ by dimension
C10_Witness ==
    /\ fk_done
    /\ fk_cfg = MixedBins
    /\ fk_entry["novelty"] = NaN
    /\ fk_entry["difficulty"] = PosInf
    /\ fk_entry["depth"] = Num(-5)
    /\ fk_entry["provability_estimate"] = Num(250)
    /\ fk_key = <<0, 2, 0, 9>>

-----------------------------------------------------------------------------
(* Properties of the stored keys *)

\* the entry lacks a configured dimension, or holds no number for it
LacksDimension(e) == \E d \in DimSet : IsInvalidFeature(e.map_scores[d])

\* C11: every key under which a record is stored has one index per configured
\* dimension: its length is the number of configured dimensions.
C11_KeyLengthIsDimCount ==
    \A k \in DOMAIN elite_map : Len(k) = Len(Dims)

\* C12: a call of update_elites on an entry that lacks a configured dimension,
\* or holds a value that is no number for it, leaves the map unchanged.
C12_MalformedInsertSkipped ==
    [][ \A e \in ArchiveEntries :
          (UpdateElites(e) /\ e.has_fitness /\ LacksDimension(e))
          => elite_map' = elite_map ]_vars

-----------------------------------------------------------------------------
(* prune_underperformers under a threshold of 50, with and without a
   staleness window *)

ScenarioConfig      == [bins |-> DefaultBins, prune_threshold |-> 50, stale_after_sec |-> 0]
ScenarioStaleConfig == [bins |-> DefaultBins, prune_threshold |-> 50, stale_after_sec |-> 1]
PruneConfigs == {ScenarioConfig, ScenarioStaleConfig}

\* the entries inserted before pruning: below, at and above the threshold
PruneEntries ==
    [ has_fitness   : {TRUE},
      fitness_score : {40, 50, 60},
      has_timestamp : {TRUE},
      timestamp     : 0..MaxAge,
      map_scores    : {LowMap, PartMap} ]

InitPrune ==
    /\ cfg \in PruneConfigs
    /\ elite_map = <<>>
    /\ dirty = FALSE
    /\ now = 0
    /\ best_seen = <<>>
    /\ best_since = <<>>
    /\ last_op = [op |-> "init", why |-> "none"]

PruneInsert ==
    \E e \in PruneEntries :
        /\ UpdateElites(e)
        /\ last_op' = [op |-> "insert", why |-> "none"]
        /\ UNCHANGED <<best_seen, best_since>>

\* what the pruning removed: nothing, a record below the threshold, or only
\* records at or above it, one of them exactly as old as the staleness window
PruneOutcome ==
    LET age(k) == now - elite_map[k].timestamp
        fit(k) == elite_map[k].fitness_score >= cfg.prune_threshold
    IN IF ToDelete = {} THEN "none"
       ELSE IF \E k \in ToDelete : ~fit(k) THEN "under"
       ELSE IF \E k \in ToDelete : age(k) = cfg.stale_after_sec THEN "stale_at_window"
       ELSE "stale_beyond"

PrunePrune ==
    /\ PruneUnderperformers
    /\ last_op' = [op |-> "prune", why |-> PruneOutcome]
    /\ UNCHANGED <<best_seen, best_since>>

PruneTick ==
    /\ now < MaxAge
    /\ now' = now + 1
    /\ last_op' = [op |-> "tick", why |-> "none"]
    /\ UNCHANGED <<cfg, elite_map, dirty, best_seen, best_since>>
    /\ UNCHANGED outsideArchive

NextPrune ==
    \/ PruneInsert
    \/ PrunePrune
    \/ PruneTick

StartPrune == IdleCascade /\ InitPrune /\ IdleKey /\ IdleRest

SpecPrune == StartPrune /\ [][NextPrune]_vars

\* the age of the record stored at key k
AgeOf(k) == now - elite_map[k].timestamp

\* C13 as stated: a call of prune_underperformers removes a record exactly if
\* its fitness_score is strictly below the threshold, or the staleness window
\* is non-zero and the record's age exceeds the window; every other record
\* stays as it was.
C13_PruneRuleAgeExceeds ==
    [][ last_op'.op = "prune" =>
          /\ \A k \in DOMAIN elite_map :
                (k \notin DOMAIN elite_map') <=>
                    \/ elite_map[k].fitness_score < cfg.prune_threshold
                    \/ cfg.stale_after_sec > 0 /\ AgeOf(k) > cfg.stale_after_sec
          /\ \A k \in DOMAIN elite_map' :
                k \in DOMAIN elite_map /\ elite_map'[k] = elite_map[k] ]_vars

\* C13 as amended: ... or the staleness window is non-zero and the record's
\* age is at least the window; with a window of 0 no record is removed for its
\* age, so under a threshold of 50 a record of fitness 40 is removed and one
\* of fitness 60 is kept at any age.
C13_PruneRuleAgeAtLeast ==
    [][ last_op'.op = "prune" =>
          /\ \A k \in DOMAIN elite_map :
                (k \notin DOMAIN elite_map') <=>
                    \/ elite_map[k].fitness_score < cfg.prune_threshold
                    \/ cfg.stale_after_sec > 0 /\ AgeOf(k) >= cfg.stale_after_sec
          /\ \A k \in DOMAIN elite_map' :
                k \in DOMAIN elite_map /\ elite_map'[k] = elite_map[k]
          /\ cfg.stale_after_sec = 0 =>
                \A k \in DOMAIN elite_map :
                    /\ elite_map[k].fitness_score = 40 => k \notin DOMAIN elite_map'
                    /\ elite_map[k].fitness_score = 60 => k \in DOMAIN elite_map' ]_vars

\* the pruning removed a record of fitness at or above the threshold that was
\* exactly as old as the window, and kept a younger one
C13_Witness ==
    /\ last_op = [op |-> "prune", why |-> "stale_at_window"]
    /\ \E k \in DOMAIN elite_map : AgeOf(k) = 0

\* under a window of 0 the pruning removed the record of fitness 40 and kept a
\* record of fitness 60 that is MaxAge old
C13_ScenarioReached ==
    /\ last_op = [op |-> "prune", why |-> "under"]
    /\ cfg = ScenarioConfig
    /\ \E k \in DOMAIN elite_map :
          elite_map[k].fitness_score = 60 /\ AgeOf(k) = MaxAge

-----------------------------------------------------------------------------
(* map_archive.sample_parents *)

HighMap == [d \in DimSet |-> Num(95)]

\* the entries inserted before sampling: three niches
SampleEntries ==
    [ has_fitness   : {TRUE},
      fitness_score : FitnessValues,
      has_timestamp : {TRUE},
      timestamp     : {0},
      map_scores    : {LowMap, PartMap, HighMap} ]

\* the sequences of m elements of S in which no element comes twice
Arrangements(S, m) ==
    { q \in [1..m -> S] : \A i, j \in 1..m : i # j => q[i] # q[j] }

Draws_WithReplacement(S, m) == [1..m -> S]

\* random.sample(population, m): m elements at distinct positions
Draws(S, m) == Arrangements(S, m)

\* what sample_parents(k) may return, as the keys of the records returned
SampleParentsKeys(k) ==
    LET elites == DOMAIN elite_map
        n == Cardinality(elites)
    IN IF elites = {} THEN {<<>>}
       ELSE IF n <= k THEN Arrangements(elites, n)
       ELSE Draws(elites, k)

\* sample_parents(k)
SampleParents(k) ==
    /\ \E q \in SampleParentsKeys(k) :
         sampled' = [k |-> k,
                     out |-> [i \in 1..Len(q) |-> [key |-> q[i], rec |-> elite_map[q[i]]]]]
    /\ UNCHANGED <<cfg, elite_map, dirty, now>>
    /\ UNCHANGED <<float_keys, files, persist_pc, snapshots, load_note>>
    /\ UNCHANGED <<cascadeVars, keyVars, schedVars, runVars>>

InitSample ==
    /\ cfg = DefaultConfig
    /\ elite_map = <<>>
    /\ dirty = FALSE
    /\ now = 0
    /\ best_seen = <<>>
    /\ best_since = <<>>
    /\ last_op = [op |-> "init", why |-> "none"]

SampleInsert ==
    \E e \in SampleEntries :
        /\ UpdateElites(e)
        /\ last_op' = [op |-> "insert", why |-> "none"]
        /\ UNCHANGED <<best_seen, best_since>>

SampleDraw ==
    \E k \in 0..MaxSample :
        /\ SampleParents(k)
        /\ last_op' = [op |-> "sample", why |-> "none"]
        /\ UNCHANGED <<best_seen, best_since>>

NextSample ==
    \/ SampleInsert
    \/ ArchReset
    \/ SampleDraw

StartSample == IdleCascade /\ InitSample /\ IdleKey /\ IdleRest

SpecSample == StartSample /\ [][NextSample]_vars

\* C14: a call of sample_parents(k) on an archive of n records returns
\* min(k, n) records, pairwise distinct and each stored in the archive (so all
\* of them when n <= k and none when the archive is empty), and leaves the
\* archive as it was.
C14_SampleWithoutReplacement ==
    [][ last_op'.op = "sample" =>
          LET n   == Cardinality(DOMAIN elite_map)
              out == sampled'.out
              k   == sampled'.k
          IN /\ Len(out) = (IF k <= n THEN k ELSE n)
             /\ \A i, j \in 1..Len(out) : i # j => out[i].key # out[j].key
             /\ \A i \in 1..Len(out) :
                   /\ out[i].key \in DOMAIN elite_map
                   /\ out[i].rec = elite_map[out[i].key]
             /\ n <= k => {out[i].key : i \in 1..Len(out)} = DOMAIN elite_map
             /\ elite_map' = elite_map
             /\ dirty' = dirty ]_vars

\* two records were drawn from an archive of three
C14_Witness ==
    /\ last_op.op = "sample"
    /\ sampled.k = 2
    /\ Len(sampled.out) = 2
    /\ Cardinality(DOMAIN elite_map) = 3

-----------------------------------------------------------------------------
(* map_archive.persist, map_archive.load_existing and init_archive in a new
   process.  A key string is the sequence of its characters; a file is absent
   or holds a JSON object (its entries by key string), JSON that is no object,
   text that is no JSON (a truncated document among them), or bytes that cannot
   be read.  The records are dicts of strings, numbers and such dicts, which
   json.dump and json.loads give back as they were. *)

\* str(i) of an int
StrOfNat(i) ==
    IF i < 10 THEN <<DigitStr[i + 1]>>
    ELSE <<DigitStr[(i \div 10) + 1], DigitStr[(i % 10) + 1]>>

StrOfInt(i) == IF i < 0 THEN <<"-">> \o StrOfNat(0 - i) ELSE StrOfNat(i)

\* str(x) of an element of a key: an int, or the float 0.0 of the key that
\* _feature_key makes for an empty feature map
StrOfIndex(x, is_float) ==
    IF is_float THEN StrOfInt(x) \o <<".", "0">> ELSE StrOfInt(x)

\* ",".join(map(str, key))
RECURSIVE JoinKey(_, _, _)
JoinKey(key, is_float, i) ==
    IF i > Len(key) THEN <<>>
    ELSE IF i = Len(key) THEN StrOfIndex(key[i], is_float)
    ELSE StrOfIndex(key[i], is_float) \o <<",">> \o JoinKey(key, is_float, i + 1)

KeyString(key) == JoinKey(key, key \in float_keys, 1)

\* data_to_save
DataToSave ==
    [ s \in {KeyString(k) : k \in DOMAIN elite_map} |->
        elite_map[CHOOSE k \in DOMAIN elite_map : KeyString(k) = s] ]

\* k_str.split(",")
RECURSIVE SplitComma(_)
SplitComma(str) ==
    IF \A i \in 1..Len(str) : str[i] # "," THEN <<str>>
    ELSE LET c == CHOOSE i \in 1..Len(str) :
                     /\ str[i] = ","
                     /\ \A j \in 1..(i - 1) : str[j] # ","
         IN <<SubSeq(str, 1, c - 1)>> \o SplitComma(SubSeq(str, c + 1, Len(str)))

IsDigits(tok) == Len(tok) > 0 /\ \A i \in 1..Len(tok) : tok[i] \in DOMAIN DigitVal

\* int(x) succeeds (on text of digits, signs, points and commas)
IntParses(tok) ==
    \/ IsDigits(tok)
    \/ Len(tok) > 1 /\ tok[1] \in {"-", "+"} /\ IsDigits(Tail(tok))

RECURSIVE NatOf(_)
NatOf(tok) ==
    IF Len(tok) = 0 THEN 0
    ELSE NatOf(SubSeq(tok, 1, Len(tok) - 1)) * 10 + DigitVal[tok[Len(tok)]]

\* int(x)
IntOf(tok) ==
    IF tok[1] = "-" THEN 0 - NatOf(Tail(tok))
    ELSE IF tok[1] = "+" THEN NatOf(Tail(tok))
    ELSE NatOf(tok)

\* tuple(int(x) for x in k_str.split(",")), or the ValueError
ParseKey(str) ==
    LET toks == SplitComma(str)
        ok   == \A i \in 1..Len(toks) : IntParses(toks[i])
    IN [ok |-> ok,
        key |-> IF ok THEN [i \in 1..Len(toks) |-> IntOf(toks[i])] ELSE <<>>]

Loadable_NoneIfAnyBad(data) ==
    IF \A str \in DOMAIN data : ParseKey(str).ok THEN DOMAIN data ELSE {}

\* the key strings of the entries that the loop stores: a ValueError skips one
\* entry and the loop goes on
Loadable(data) == {str \in DOMAIN data : ParseKey(str).ok}

\* the map after the loop of load_existing over a JSON object
LoadEntries(map, data) ==
    LET keys == {ParseKey(str).key : str \in Loadable(data)}
    IN [ k \in (DOMAIN map) \cup keys |->
           IF k \in keys
           THEN data[CHOOSE str \in Loadable(data) : ParseKey(str).key = k]
           ELSE map[k] ]

\* how load_existing ends: no file, an exception caught and printed, or the
\* loop run to its end
LoadOutcome(file) ==
    IF ~file.there THEN "absent"
    ELSE IF file.kind = "object" THEN "loaded"
    ELSE "failed"

LoadedInto(map, file) ==
    IF LoadOutcome(file) = "loaded" THEN LoadEntries(map, file.data) ELSE map

\* a record as json.loads returns it
StoredRecord(fit, ms) == [fitness_score |-> fit, timestamp |-> 0, map_scores |-> ms]

ObjectFile(data) == [there |-> TRUE, kind |-> "object", data |-> data]

\* a document with entries of three kinds: keys that are comma-joined integers,
\* keys that are not, and a key with a negative integer
MixedDocument ==
    ObjectFile( (<<"9", ",", "9", ",", "9", ",", "9">> :> StoredRecord(1, HighMap))
             @@ (<<"-", "1", ",", "0">> :> StoredRecord(1, LowMap))
             @@ (<<"0", ".", "0", ",", "0", ".", "0">> :> StoredRecord(2, EmptyMap))
             @@ (<<>> :> StoredRecord(2, LowMap))
             @@ (<<"9", ",", ",", "9">> :> StoredRecord(2, HighMap)) )

\* what may be at file_path when the run starts
InitialDocuments ==
    { NoFile,
      MixedDocument,
      ObjectFile(<<>>),
      [there |-> TRUE, kind |-> "array",      data |-> <<>>],
      [there |-> TRUE, kind |-> "garbage",    data |-> <<>>],
      [there |-> TRUE, kind |-> "unreadable", data |-> <<>>] }

\* the entries inserted between the loads and the writes
StoreEntries ==
    [ has_fitness   : {TRUE},
      fitness_score : {1},
      has_timestamp : {TRUE},
      timestamp     : {0},
      map_scores    : {LowMap, EmptyMap, HighMap} ]

TmpPath_Same == "json"

\* path.with_suffix(".tmp")
TmpPath == "tmp"

\* tmp_path.rename(path)
Rename(fs, from, to) ==
    IF from = to THEN fs
    ELSE [fs EXCEPT ![to] = fs[from], ![from] = NoFile]

storeRest == <<cascadeVars, keyVars, schedVars, runVars, sampled, cfg, now, best_seen,
              best_since>>

\* update_elites(entry); the key of a niche filled by an entry with an empty
\* feature map is the tuple of floats
StoreInsert ==
    \E e \in StoreEntries :
        /\ persist_pc = "idle"
        /\ UpdateElitesIn(e)
        /\ LET key == FeatureKey(cfg.bins, e.map_scores)
           IN float_keys' =
                IF /\ key \notin DOMAIN elite_map
                   /\ key \in DOMAIN elite_map'
                   /\ IsEmptyFeatures(e.map_scores)
                THEN float_keys \cup {key}
                ELSE float_keys
        /\ last_op' = [op |-> "insert", why |-> "none"]
        /\ UNCHANGED <<files, persist_pc, snapshots, load_note>>
        /\ UNCHANGED <<cascadeVars, keyVars, schedVars, runVars, sampled, best_seen,
                       best_since>>

\* persist(): the dirty check, then tmp_path.open("w")
PersistBegin ==
    /\ persist_pc = "idle"
    /\ IF ~dirty
       THEN /\ last_op' = [op |-> "persist", why |-> "clean"]
            /\ UNCHANGED <<files, persist_pc, snapshots>>
       ELSE /\ files' = [files EXCEPT ![TmpPath] =
                            [there |-> TRUE, kind |-> "garbage", data |-> <<>>]]
            /\ persist_pc' = "writing"
            /\ snapshots' = [prev |-> files.json, new |-> ObjectFile(DataToSave)]
            /\ last_op' = [op |-> "persist", why |-> "open"]
    /\ UNCHANGED <<elite_map, dirty, float_keys, load_note>>
    /\ UNCHANGED storeRest

\* persist(): json.dump has written the whole document and the file is closed
PersistWrite ==
    /\ persist_pc = "writing"
    /\ files' = [files EXCEPT ![TmpPath] = snapshots.new]
    /\ persist_pc' = "written"
    /\ last_op' = [op |-> "persist", why |-> "dump"]
    /\ UNCHANGED <<elite_map, dirty, float_keys, load_note, snapshots>>
    /\ UNCHANGED storeRest

\* persist(): tmp_path.rename(path)
PersistRename ==
    /\ persist_pc = "written"
    /\ files' = Rename(files, TmpPath, "json")
    /\ persist_pc' = "renamed"
    /\ last_op' = [op |-> "persist", why |-> "rename"]
    /\ UNCHANGED <<elite_map, dirty, float_keys, load_note, snapshots>>
    /\ UNCHANGED storeRest

\* persist(): _dirty = False and the return
PersistReturn ==
    /\ persist_pc = "renamed"
    /\ dirty' = FALSE
    /\ persist_pc' = "idle"
    /\ last_op' = [op |-> "persist", why |-> "written"]
    /\ UNCHANGED <<elite_map, float_keys, files, load_note, snapshots>>
    /\ UNCHANGED storeRest

\* the process dies inside persist(): what it held in memory is gone
Crash ==
    /\ persist_pc \in {"writing", "written", "renamed"}
    /\ persist_pc' = "down"
    /\ elite_map' = <<>>
    /\ dirty' = FALSE
    /\ float_keys' = {}
    /\ last_op' = [op |-> "crash", why |-> persist_pc]
    /\ UNCHANGED <<files, load_note, snapshots>>
    /\ UNCHANGED storeRest

\* load_existing()
LoadExisting ==
    /\ persist_pc = "idle"
    /\ elite_map' = LoadedInto(elite_map, files.json)
    /\ load_note' = LoadOutcome(files.json)
    /\ last_op' = [op |-> "load", why |-> LoadOutcome(files.json)]
    /\ UNCHANGED <<dirty, float_keys, files, persist_pc, snapshots>>
    /\ UNCHANGED storeRest

\* init_archive() of a new process: the map is cleared, then load_existing()
Restart ==
    /\ persist_pc \in {"idle", "down"}
    /\ persist_pc' = "idle"
    /\ elite_map' = LoadedInto(<<>>, files.json)
    /\ dirty' = FALSE
    /\ float_keys' = {}
    /\ load_note' = LoadOutcome(files.json)
    /\ last_op' = [op |-> "restart", why |-> LoadOutcome(files.json)]
    /\ UNCHANGED <<files, snapshots>>
    /\ UNCHANGED storeRest

InitStore ==
    /\ InitSample
    /\ sampled = [k |-> 0, out |-> <<>>]
    /\ float_keys = {}
    /\ files \in [json : InitialDocuments, tmp : {NoFile}]
    /\ persist_pc = "down"
    /\ snapshots = [prev |-> files.json, new |-> files.json]
    /\ load_note = "none"

NextStore ==
    \/ StoreInsert
    \/ PersistBegin
    \/ PersistWrite
    \/ PersistRename
    \/ PersistReturn
    \/ Crash
    \/ LoadExisting
    \/ Restart

StartStore == IdleCascade /\ InitStore /\ IdleKey /\ IdleSched /\ IdleRun

SpecStore == StartStore /\ [][NextStore]_vars

\* C15: a non-empty archive built by insert, written by persist and then
\* loaded by a newly initialised archive, comes back with the same keys and the
\* same records.
C15_PersistLoadRoundTrip ==
    [][ ( /\ last_op.op = "persist"
          /\ last_op.why \in {"written", "clean"}
          /\ last_op'.op = "restart"
          /\ DOMAIN elite_map # {} )
        => elite_map' = elite_map ]_vars

\* C16: when the process dies inside persist, the document at the target path
\* is the whole document that was there when persist began or the whole
\* document that persist was writing.
C16_TargetWholeAfterCrash ==
    persist_pc \in {"writing", "written", "renamed", "down"}
        => files.json \in {snapshots.prev, snapshots.new}

\* the process died with the temporary file half written and an earlier
\* document in place
C16_Witness ==
    /\ persist_pc = "down"
    /\ last_op = [op |-> "crash", why |-> "writing"]
    /\ files.tmp.kind = "garbage"
    /\ files.json = snapshots.prev
    /\ files.json.kind = "object"
    /\ files.json # snapshots.new

\* C17: load_existing returns without an exception; from a document holding
\* entries with malformed keys it stores every entry whose key is comma-joined
\* integers and no other, and a document that cannot be read or parsed leaves
\* the map as it was.
C17_LoadTolerant ==
    [][ last_op'.op \in {"load", "restart"} =>
          LET file == files.json
              base == IF last_op'.op = "restart" THEN <<>> ELSE elite_map
              good == IF file.there /\ file.kind = "object"
                      THEN {str \in DOMAIN file.data :
                              \A i \in 1..Len(SplitComma(str)) :
                                  IntParses(SplitComma(str)[i])}
                      ELSE {}
          IN /\ load_note' \in {"absent", "failed", "loaded"}
             /\ \A str \in good :
                   /\ ParseKey(str).key \in DOMAIN elite_map'
                   /\ elite_map'[ParseKey(str).key] = file.data[str]
             /\ \A k \in DOMAIN elite_map' :
                   \/ \E str \in good : ParseKey(str).key = k
                   \/ k \in DOMAIN base /\ elite_map'[k] = base[k]
             /\ \A k \in DOMAIN base : k \in DOMAIN elite_map'
             /\ (~file.there \/ file.kind # "object") => elite_map' = base ]_vars

\* a document with good and malformed keys was loaded into a map that held a
\* record already
C17_Witness ==
    /\ last_op = [op |-> "load", why |-> "loaded"]
    /\ \E str \in DOMAIN files.json.data : ~ParseKey(str).ok
    /\ \E str \in DOMAIN files.json.data :
          ParseKey(str).ok /\ ParseKey(str).key \in DOMAIN elite_map
    /\ \E k \in DOMAIN elite_map :
          \A str \in DOMAIN files.json.data : ParseKey(str).key # k

\* a document that is no JSON was met by a map that held a record
C17_WitnessUnparsable ==
    /\ last_op = [op |-> "load", why |-> "failed"]
    /\ files.json.kind = "garbage"
    /\ DOMAIN elite_map # {}

-----------------------------------------------------------------------------
(* sampler.update_operator_stats *)

NOVEL_ARM == "_NOVEL_"

\* the operator ids passed to the sampler; only NOVEL_ARM has an entry at start
OperatorIds == {NOVEL_ARM, "op_a", "op_b"}

\* rewards: below zero, zero, above zero
Rewards == {-1, 0, 1}

\* _op_stats[operator_id] of the defaultdict
StatsOf(stats, op) == IF op \in DOMAIN stats THEN stats[op] ELSE <<0, 0>>

Win_AddsReward(reward) == reward

Win_ZeroCounts(reward) == IF reward >= 0 THEN 1 ELSE 0

\* int(reward > 0)
Win(reward) == IF reward > 0 THEN 1 ELSE 0

\* update_operator_stats(operator_id, reward)
UpdateOperatorStats(op, reward) ==
    /\ StatsOf(op_stats, op)[2] < MaxTrials
    /\ LET wins  == StatsOf(op_stats, op)[1]
           tries == StatsOf(op_stats, op)[2]
       IN op_stats' = Put(op_stats, op, <<wins + Win(reward), tries + 1>>)
    /\ UNCHANGED <<ledger, chosen, next_uuid>>
    /\ UNCHANGED <<cascadeVars, archiveVars, keyVars, storeVars, runVars>>

StatsUpdate == \E op \in OperatorIds, reward \in Rewards : UpdateOperatorStats(op, reward)

NextStats == StatsUpdate

StartStats == IdleCascade /\ IdleArchive /\ IdleKey /\ IdleRest

SpecStats == StartStats /\ [][NextStats]_vars

\* C18: update_operator_stats(op, reward) adds one to the trials of op, adds
\* one to its successes exactly when reward > 0, and leaves the pair of every
\* other operator as it was.
C18_StatsUpdateRule ==
    [][ \A op \in OperatorIds, reward \in Rewards :
          UpdateOperatorStats(op, reward) =>
            /\ op \in DOMAIN op_stats'
            /\ op_stats'[op][2] = StatsOf(op_stats, op)[2] + 1
            /\ reward > 0  => op_stats'[op][1] = StatsOf(op_stats, op)[1] + 1
            /\ reward <= 0 => op_stats'[op][1] = StatsOf(op_stats, op)[1]
            /\ \A other \in OperatorIds \ {op} :
                  /\ StatsOf(op_stats', other) = StatsOf(op_stats, other)
                  /\ other \in DOMAIN op_stats' <=> other \in DOMAIN op_stats ]_vars

\* one operator was tried twice and won once, another was tried once with no
\* positive reward
C18_Witness ==
    /\ "op_a" \in DOMAIN op_stats /\ op_stats["op_a"] = <<1, 2>>
    /\ "op_b" \in DOMAIN op_stats /\ op_stats["op_b"] = <<0, 1>>
    /\ op_stats[NOVEL_ARM] = <<0, 0>>

-----------------------------------------------------------------------------
(* program_db.append, program_db.load, program_db.sample_parents and
   sampler.choose_parents.  The ledger is the sequence of the lines of the
   JSONL file. *)

CallerId   == [src |-> "caller", n |-> 1]
Uuid4(n)   == [src |-> "uuid4", n |-> n]
CallerTime == 7

\* the dicts passed to append: with or without 'id', 'timestamp' and 'score'
\* (a score lies in [0, 1])
LedgerEntries ==
    { e \in [ has_id        : BOOLEAN,
              has_timestamp : BOOLEAN,
              has_score     : BOOLEAN,
              score         : {0, 1} ] :
        ~e.has_score => e.score = 0 }

\* the record that ConjecturerPipeline.run appends: an 'id', a 'fitness_score'
\* and no 'score'
PipelineRecord == [has_id |-> TRUE, has_timestamp |-> FALSE, has_score |-> FALSE, score |-> 0]

SetDefault_Overwrite(has, own, made) == made

\* entry.setdefault(field, made)
SetDefault(has, own, made) == IF has THEN own ELSE made

\* the line that append writes
LedgerLine(e) ==
    [ id        |-> SetDefault(e.has_id, CallerId, Uuid4(next_uuid)),
      timestamp |-> SetDefault(e.has_timestamp, CallerTime, now),
      has_score |-> e.has_score,
      score     |-> e.score,
      by_pipeline |-> e = PipelineRecord ]

\* program_db.append(entry)
ProgramDbAppend(e) ==
    /\ Len(ledger) < MaxLedger
    /\ ledger' = Append(ledger, LedgerLine(e))
    /\ next_uuid' = next_uuid + 1
    /\ chosen' = [k |-> 0, how |-> "none", out |-> <<>>]
    /\ UNCHANGED op_stats
    /\ UNCHANGED <<cfg, elite_map, dirty, now, best_seen, best_since>>
    /\ UNCHANGED <<cascadeVars, keyVars, storeVars, runVars>>

\* program_db.load(): the lines with r.get("score", 0.0) >= min_score
LoadedLines(min_score) ==
    { i \in 1..Len(ledger) :
        (IF ledger[i].has_score THEN ledger[i].score ELSE 0) >= min_score }

LedgerRef(i)  == [src |-> "ledger",  key |-> <<>>, idx |-> i]
ArchiveRef(k) == [src |-> "archive", key |-> k,    idx |-> 0]

\* program_db.sample_parents(k): r["score"] is a KeyError for a line without
\* 'score'; the draws are random, so the k first after the sort are any k
LedgerSampleParents(k) ==
    LET records == LoadedLines(0)
        n == Cardinality(records)
    IN IF records = {} THEN {[how |-> "returned", out |-> <<>>]}
       ELSE IF \E i \in records : ~ledger[i].has_score
       THEN {[how |-> "raised", out |-> <<>>]}
       ELSE { [how |-> "returned", out |-> [j \in 1..Len(q) |-> LedgerRef(q[j])]] :
                q \in Arrangements(records, IF k <= n THEN k ELSE n) }

\* sampler.choose_parents(k)
ChooseParentsResults(k) ==
    LET elites == SampleParentsKeys(k)
    IN IF \E q \in elites : Len(q) > 0
       THEN { [how |-> "returned", out |-> [j \in 1..Len(q) |-> ArchiveRef(q[j])]] :
                q \in elites }
       ELSE LedgerSampleParents(k)

ChooseParents(k) ==
    /\ \E res \in ChooseParentsResults(k) :
          chosen' = [k |-> k, how |-> res.how, out |-> res.out]
    /\ UNCHANGED <<op_stats, ledger, next_uuid>>
    /\ UNCHANGED <<cfg, elite_map, dirty, now, best_seen, best_since>>
    /\ UNCHANGED <<cascadeVars, keyVars, storeVars, runVars>>

\* the entries that fill the archive of which parents are chosen
LedgerArchiveEntries ==
    [ has_fitness   : {TRUE},
      fitness_score : {1},
      has_timestamp : {TRUE},
      timestamp     : {0},
      map_scores    : {LowMap, HighMap} ]

LedgerAppend ==
    \E e \in LedgerEntries :
        /\ ProgramDbAppend(e)
        /\ last_op' = [op |-> "append", why |-> "none"]

LedgerChoose ==
    \E k \in 1..MaxSample :
        /\ ChooseParents(k)
        /\ last_op' = [op |-> "choose", why |-> "none"]

LedgerInsert ==
    \E e \in LedgerArchiveEntries :
        /\ UpdateElites(e)
        /\ last_op' = [op |-> "insert", why |-> "none"]
        /\ UNCHANGED <<best_seen, best_since>>

NextLedger ==
    \/ LedgerAppend
    \/ LedgerChoose
    \/ LedgerInsert
    \/ ArchReset

StartLedger == IdleCascade /\ InitSample /\ IdleKey /\ IdleRest

SpecLedger == StartLedger /\ [][NextLedger]_vars

\* C19: choose_parents(k) returns at most k records, all of them records of
\* the archive, when the archive is not empty; when the archive is empty it
\* returns up to k records of the ledger and the empty list only for an empty
\* ledger, and it does not fail on a ledger whose records the pipeline appended.
C19_ChooseParentsFallback ==
    [][ last_op'.op = "choose" =>
          LET out == chosen'.out
              k   == chosen'.k
          IN /\ Len(out) <= k
             /\ DOMAIN elite_map # {} =>
                   /\ chosen'.how = "returned"
                   /\ \A j \in 1..Len(out) :
                         out[j].src = "archive" /\ out[j].key \in DOMAIN elite_map
             /\ (DOMAIN elite_map = {} /\ chosen'.how = "returned") =>
                   /\ \A j \in 1..Len(out) :
                         out[j].src = "ledger" /\ out[j].idx \in 1..Len(ledger)
                   /\ out = <<>> => ledger = <<>>
             /\ ( /\ DOMAIN elite_map = {}
                  /\ \A i \in 1..Len(ledger) : ledger[i].by_pipeline )
                => chosen'.how = "returned" ]_vars

\* C20: an append adds one record behind the records that are there, no
\* operation changes or removes a record of the ledger, and the appended
\* record keeps the id and the timestamp it came with and gets a newly made id
\* and the current time when it came without.
C20_LedgerAppendOnly ==
    [][ /\ Len(ledger') >= Len(ledger)
        /\ \A i \in 1..Len(ledger) : ledger'[i] = ledger[i]
        /\ \A e \in LedgerEntries :
              ProgramDbAppend(e) =>
                /\ Len(ledger') = Len(ledger) + 1
                /\ LET rec == ledger'[Len(ledger')]
                   IN /\ e.has_id => rec.id = CallerId
                      /\ ~e.has_id =>
                            /\ rec.id.src = "uuid4"
                            /\ \A i \in 1..Len(ledger) : ledger[i].id # rec.id
                      /\ e.has_timestamp => rec.timestamp = CallerTime
                      /\ ~e.has_timestamp => rec.timestamp = now ]_vars

\* a record that came with its id and a record that came without are in the
\* ledger, and a choice of parents has been made since
C20_Witness ==
    /\ Len(ledger) = 2
    /\ ledger[1].id = CallerId /\ ledger[1].timestamp = CallerTime
    /\ ledger[2].id.src = "uuid4" /\ ledger[2].timestamp = now
    /\ last_op.op = "choose"

-----------------------------------------------------------------------------
(* One iteration of ConjecturerPipeline.run with testing = False: evaluate,
   ContextMaker.make, evaluate_fitness, and per candidate program_db.append,
   update_operator_stats and update_elites, then persist.  The iteration
   boundary is the top of the loop body.  ConjectureEvalResult defines no
   attribute `passed`, which ContextMaker.make reads, so its value is left
   open; the fitness dicts are taken to hold the keys the pipeline reads. *)

\* the results evaluate returns for a candidate, one of each outcome
CascadeResults(g) ==
    { ResultNew(g, FALSE, FALSE, FALSE, FALSE, FALSE, "compile_failed",
                NoneList, NoneList, NoneList, NoneList),
      ResultNew(g, FALSE, FALSE, FALSE, TRUE, FALSE, "None",
                <<ExactTag>>, NoneList, NoneList, NoneList),
      ResultNew(g, FALSE, FALSE, FALSE, FALSE, TRUE, "None",
                <<AesopTag>>, NoneList, NoneList, NoneList),
      ResultNew(g, TRUE, TRUE, FALSE, FALSE, FALSE, "None",
                <<ShortProof>>, <<LongProof>>, NoneList, NoneList),
      ResultNew(g, TRUE, FALSE, TRUE, FALSE, FALSE, "None",
                <<>>, <<ShortProof>>, <<ShortProof>>, <<>>),
      ResultNew(g, TRUE, FALSE, FALSE, FALSE, FALSE, "None",
                <<>>, <<ShortProof>>, <<>>, <<ShortProof>>) }

\* the batches evaluate may return: one result per candidate
CascadeBatches ==
    UNION { { b \in [1..n -> UNION {CascadeResults(g) : g \in 1..n}] :
                \A g \in 1..n : b[g].conjecture = g } : n \in 1..MaxBatch }

\* the operators the generator reports as chosen_op
ChosenOps == {"op_a", "op_b"}

\* ContextMaker.make: whether the list of non-trivial statements may be
\* non-empty, over the results of all iterations so far
MayBeUpdated(history_open) == IF history_open THEN BOOLEAN ELSE {FALSE}

\* not (eval_result.exact_provable or eval_result.aesop_provable)
NotTrivial(r) == ~(r.exact_provable \/ r.aesop_provable)

\* the `conjectures` argument of evaluate_fitness, handed on to the judge
JudgeInput(batch) == batch

\* the record of pipeline.py as a line of the ledger
PipelineLine(op, fit) ==
    [ id          |-> SetDefault(TRUE, CallerId, Uuid4(next_uuid)),
      timestamp   |-> SetDefault(FALSE, CallerTime, now),
      has_score   |-> FALSE,
      score       |-> 0,
      by_pipeline |-> TRUE,
      operator_id |-> op,
      fitness_score |-> fit ]

\* the record of pipeline.py as an entry of update_elites
PipelineEntry(fit, ms) ==
    [ has_fitness |-> TRUE, fitness_score |-> fit,
      has_timestamp |-> FALSE, timestamp |-> 0, map_scores |-> ms ]

iterRest == <<cascadeVars, keyVars, call_in, call_out, call_done, sampled, float_keys,
              persist_pc, snapshots, load_note, chosen, best_seen, best_since, last_op>>

InitIteration ==
    /\ iteration = [pc |-> "top", batch |-> <<>>, op |-> "op_a", history_open |-> FALSE,
                    called |-> FALSE, judged |-> <<>>, appended |-> 0, ledger0 |-> 0]
    /\ call_in = <<>>
    /\ call_out = <<>>
    /\ call_done = FALSE

\* the generator hands over its candidates and chosen_op, and evaluate returns
IterEvaluate ==
    /\ iteration.pc = "top"
    /\ \E batch \in CascadeBatches, op \in ChosenOps :
         /\ Len(ledger) + Len(batch) <= MaxLedger
         /\ iteration' = [pc |-> "evaluated", batch |-> batch, op |-> op,
                          history_open |-> \/ iteration.history_open
                                           \/ \E g \in 1..Len(batch) : NotTrivial(batch[g]),
                          called |-> FALSE, judged |-> <<>>, appended |-> 0,
                          ledger0 |-> Len(ledger)]
    /\ UNCHANGED <<cfg, elite_map, dirty, now, files, op_stats, ledger, next_uuid>>
    /\ UNCHANGED iterRest

\* ContextMaker.make and `if not updated: continue`
IterContext ==
    /\ iteration.pc = "evaluated"
    /\ \E updated \in MayBeUpdated(iteration.history_open) :
         iteration' = [iteration EXCEPT !.pc = IF updated THEN "updated" ELSE "top"]
    /\ UNCHANGED <<cfg, elite_map, dirty, now, files, op_stats, ledger, next_uuid>>
    /\ UNCHANGED iterRest

\* evaluate_fitness(context, parent_code, results)
IterFitness ==
    /\ iteration.pc = "updated"
    /\ iteration' = [iteration EXCEPT !.pc = "merging", !.called = TRUE,
                                      !.judged = JudgeInput(iteration.batch)]
    /\ UNCHANGED <<cfg, elite_map, dirty, now, files, op_stats, ledger, next_uuid>>
    /\ UNCHANGED iterRest

\* the body of the loop over zip(fitness_results, results, conjectures)
IterRecord ==
    /\ iteration.pc = "merging"
    /\ iteration.appended < Len(iteration.batch)
    /\ \E fit \in FitnessValues \cup {0}, ms \in {LowMap, HighMap} :
         /\ ledger' = Append(ledger, PipelineLine(iteration.op, fit))
         /\ next_uuid' = next_uuid + 1
         /\ op_stats' = Put(op_stats, iteration.op,
                            <<StatsOf(op_stats, iteration.op)[1] + Win(fit),
                              StatsOf(op_stats, iteration.op)[2] + 1>>)
         /\ UpdateElitesIn(PipelineEntry(fit, ms))
    /\ iteration' = [iteration EXCEPT !.appended = @ + 1]
    /\ UNCHANGED files
    /\ UNCHANGED iterRest

\* map_archive.persist() at the end of the loop body
IterPersist ==
    /\ iteration.pc = "merging"
    /\ iteration.appended = Len(iteration.batch)
    /\ IF dirty
       THEN /\ files' = [files EXCEPT !.json = ObjectFile(DataToSave)]
            /\ dirty' = FALSE
       ELSE UNCHANGED <<files, dirty>>
    /\ iteration' = [iteration EXCEPT !.pc = "top"]
    /\ UNCHANGED <<cfg, elite_map, now, op_stats, ledger, next_uuid>>
    /\ UNCHANGED iterRest

\* the process ends at an iteration boundary and a new one starts: sampler and
\* map_archive are imported anew, init_archive loads the archive file, and the
\* ledger file is as it was
IterRestart ==
    /\ iteration.pc = "top"
    /\ op_stats' = [op \in {NOVEL_ARM} |-> <<0, 0>>]
    /\ elite_map' = LoadedInto(<<>>, files.json)
    /\ dirty' = FALSE
    /\ iteration' = [iteration EXCEPT !.history_open = FALSE]
    /\ UNCHANGED <<cfg, now, files, ledger, next_uuid>>
    /\ UNCHANGED iterRest

NextPipeline ==
    \/ IterEvaluate
    \/ IterContext
    \/ IterFitness
    \/ IterRecord
    \/ IterPersist
    \/ IterRestart

StartPipeline ==
    IdleCascade /\ InitSample /\ IdleKey /\ IdleStore /\ IdleSched /\ InitIteration

SpecPipeline == StartPipeline /\ [][NextPipeline]_vars

\* the records of the ledger with operator id op: all, and those with a
\* fitness_score above zero
LedgerTrials(op) == Cardinality({i \in 1..Len(ledger) : ledger[i].operator_id = op})
LedgerWins(op) ==
    Cardinality({i \in 1..Len(ledger) :
                    ledger[i].operator_id = op /\ ledger[i].fitness_score > 0})

\* C21: an iteration that evaluated a batch of candidates has appended one
\* record per candidate of the batch to the ledger when it ends, whatever the
\* outcomes of the candidates.
C21_OneRecordPerCandidate ==
    [][ (iteration.pc # "top" /\ iteration'.pc = "top")
        => Len(ledger') = iteration.ledger0 + Len(iteration.batch) ]_vars

\* C22: at every iteration boundary, the first one after a restart with a
\* non-empty ledger included, the trials of every operator are the number of
\* ledger records with its id and its successes the number of those with a
\* fitness_score above zero.
C22_StatsMatchLedger ==
    iteration.pc = "top" =>
        \A op \in ChosenOps :
            StatsOf(op_stats, op) = <<LedgerWins(op), LedgerTrials(op)>>

\* C23: the judge is called only with candidates that neither failed to compile
\* nor were proved by a cheap tactic.
C23_JudgeSeesOnlyOpenCandidates ==
    iteration.called =>
        \A g \in 1..Len(iteration.judged) :
            /\ ~IsCompileFailed(iteration.judged[g])
            /\ ~IsTriviallyProvable(iteration.judged[g])

-----------------------------------------------------------------------------
(* FitnessEvaluator.evaluate_fitness: the scores of one candidate, merged from
   the judge's item and the evaluator's own proof search.  Scores are whole
   numbers. *)

Min(a, b) == IF a <= b THEN a ELSE b
Max(a, b) == IF a >= b THEN a ELSE b

\* _qbin on a whole number: int(5 * math.floor(x / 5.0 + 0.499)) within [0, 100]
Qbin(x) ==
    LET c == Max(0, Min(100, x))
    IN Max(0, Min(100, 5 * ((c + 2) \div 5)))

JudgeFlags == {"ill_typed", "likely_false", "restatement", "trivial_pattern"}

\* what the judge may return as provability_estimate (0 also when it is missing)
JudgeScores == {-5, 0, 47, 100, 250}

\* the item of one candidate: the outcome of the proof search on it and on its
\* negation (tried only when the candidate did not verify), and the judge's
\* scores and flags
FitnessInputs ==
    { a \in [ verified     : BOOLEAN,
              neg_verified : BOOLEAN,
              prov         : JudgeScores,
              other        : {50},
              flags        : SUBSET JudgeFlags ] :
        ~(a.verified /\ a.neg_verified) }

\* flags["likely_false"] = flags.get("likely_false", False) or likely_false_flags_by_i.get(i, False)
MergedFlags(a) ==
    IF a.neg_verified THEN a.flags \cup {"likely_false"} ELSE a.flags

ProofOverride_JudgeWins(prov, is_verified, is_neg_verified) == prov

\* if is_verified: 100, elif is_neg_verified: 0
ProofOverride(prov, is_verified, is_neg_verified) ==
    IF is_verified THEN 100
    ELSE IF is_neg_verified THEN 0
    ELSE prov

\* _apply_hard_caps
ApplyHardCaps(scores, flags) ==
    LET ill  == "ill_typed" \in flags
        lf   == "likely_false" \in flags /\ ~ill
        rest == "restatement" \in flags \/ "trivial_pattern" \in flags
        cap(x, when, c) == IF when THEN Min(x, c) ELSE x
        prov == cap(IF ill THEN 0 ELSE scores.provability_estimate, lf, 30)
    IN [ novelty    |-> Qbin(cap(cap(scores.novelty, ill, 5), rest, 10)),
         provability_estimate |-> Qbin(prov),
         depth      |-> Qbin(cap(cap(scores.depth, ill, 10), rest, 20)),
         difficulty |-> Qbin(cap(cap(scores.difficulty, ill, 10), rest, 30)) ]

\* the scores of the fitness dict of one candidate
MergedScores(a) ==
    LET flags == MergedFlags(a)
        is_neg_verified == "likely_false" \in flags
        scores == [ novelty    |-> Qbin(a.other),
                    provability_estimate |->
                        ProofOverride(Qbin(a.prov), a.verified, is_neg_verified),
                    depth      |-> Qbin(a.other),
                    difficulty |-> Qbin(a.other) ]
    IN ApplyHardCaps(scores, flags)

InitFitness ==
    /\ iteration = [pc |-> "idle"]
    /\ call_in \in FitnessInputs
    /\ call_out = <<>>
    /\ call_done = FALSE

EvaluateFitness ==
    /\ ~call_done
    /\ call_out' = MergedScores(call_in)
    /\ call_done' = TRUE
    /\ UNCHANGED <<iteration, call_in>>
    /\ UNCHANGED <<cascadeVars, archiveVars, keyVars, storeVars, schedVars>>

NextFitness == EvaluateFitness

StartFitness ==
    IdleCascade /\ IdleArchive /\ IdleKey /\ IdleStore /\ IdleSched /\ InitFitness

SpecFitness == StartFitness /\ [][NextFitness]_vars

\* C24 as stated: the merged provability_estimate is 100 for a candidate the
\* proof search verified and 0 for one whose negation it verified, for any
\* scores and flags of the judge.
C24_ProofOutcomeOverridesJudge ==
    call_done =>
        /\ call_in.verified => call_out.provability_estimate = 100
        /\ call_in.neg_verified => call_out.provability_estimate = 0

\* C24, amended: the merged provability_estimate is 100 for a candidate the
\* proof search verified and the judge flagged neither ill_typed nor
\* likely_false, and 0 for one whose negation the proof search verified, for
\* any scores of the judge.
C24_ProofOutcomeOverridesScore ==
    call_done =>
        /\ (call_in.verified /\ call_in.flags \cap {"ill_typed", "likely_false"} = {})
              => call_out.provability_estimate = 100
        /\ call_in.neg_verified => call_out.provability_estimate = 0

\* a verified candidate the judge scored 0 and flagged as a restatement
C24_Witness ==
    /\ call_done
    /\ call_in.verified
    /\ call_in.prov = 0
    /\ call_in.flags = {"restatement"}
    /\ call_out.provability_estimate = 100

-----------------------------------------------------------------------------
(* Further claims about the cascade *)

\* evaluate leaves by an exception in this step
Raises == pc # "raised" /\ pc' = "raised"

\* C25: a content-level failure of a single candidate (a compile error, no
\* tactic suggestion, no verified completion, a negation the verification
\* service could not produce) never makes evaluate raise: evaluate raises only
\* when a pass@k response carried a malformed identity or when the batched
\* call of a stage failed as a whole.
C25_RaisesOnlyOnProtocolOrTransport ==
    [][Raises => (bad_id_seen' \/ RpcFails)]_vars

\* the stages in the order of evaluate's text; the negation block makes two
\* round trips, the rewriting of the negations and the pass@k check
StageOrder == <<"compile", "exact", "aesop", "prove", "push_neg", "negate">>

StageRank(stage) == CHOOSE k \in 1..Len(StageOrder) : StageOrder[k] = stage

\* C26: within one run of evaluate the requests are issued in the order
\* compile-only, exact?, aesop?, forward pass@k, negation (rewrite, then
\* pass@k); each is issued at most once, and no candidate is part of a request
\* of a stage that precedes one it has already been through.  The ranks of
\* the requests grow strictly along the log, for the log as a whole and so for
\* the requests that hold any one candidate.
C26_StagesInOrderAtMostOnce ==
    /\ \A p, q \in 1..Len(requests) :
          p < q => StageRank(requests[p].stage) < StageRank(requests[q].stage)
    /\ \A g \in 1..nconj :
          submitted[g] = {IF r.stage = "push_neg" THEN "negate" ELSE r.stage :
                             r \in {x \in Range(requests) : g \in x.batch}}

\* a run that issued all six requests, the last ones for one candidate of two
C26_Witness ==
    /\ pc = "returned"
    /\ nconj = 2
    /\ Len(requests) = 6
    /\ requests[1].batch = {1, 2}
    /\ Cardinality(requests[6].batch) = 1

\* text is one of texts and none of texts is strictly shorter
IsAShortestOf(text, texts) ==
    /\ text \in Range(texts)
    /\ \A k \in 1..Len(texts) : Len(text) <= Len(texts[k])

\* C27: the retained proof of a NonTriviallyProvable candidate is one of its
\* verified completions, that of a LikelyFalse candidate is one of its verified
\* negated completions, and no verified completion of the same kind of that
\* candidate is strictly shorter.
C27_RetainedProofIsShortestVerified ==
    \A g \in 1..Len(results) :
        /\ IsNonTriviallyProvable(results[g]) =>
               IsAShortestOf(proof[g], results[g].verified_proofs)
        /\ IsLikelyFalse(results[g]) =>
               IsAShortestOf(proof[g], results[g].neg_verified_proofs)

\* both completions of a candidate verified, the longer one listed first, and
\* both negated completions of another candidate verified
C27_Witness ==
    /\ pc = "returned"
    /\ nconj = 2
    /\ \E g \in 1..2 :
         /\ IsNonTriviallyProvable(results[g])
         /\ results[g].verified_proofs = <<LongProof, ShortProof>>
         /\ proof[g] = ShortProof
    /\ \E g \in 1..2 :
         /\ IsLikelyFalse(results[g])
         /\ Len(results[g].neg_verified_proofs) = 2
         /\ proof[g] = ShortProof

-----------------------------------------------------------------------------
(* One call of _is_verified on a response of the verification service *)

\* the messages a response may carry
VerifyMessages ==
    { Msg(sev, data) : sev \in {"info", "warning", "error"},
                       data \in { <<SorryWarn>>, <<"unused", "variable">>,
                                  <<"note:", SorryWarn>> } }

\* responses with up to two messages, of a call that went through or errored
VerifyEntries ==
    { Entry(<<"0", ":", "0">>, err, msgs) :
        err \in {"None", "timeout"},
        msgs \in {<<>>} \cup { <<m>> : m \in VerifyMessages }
                        \cup { <<m1, m2>> : m1 \in VerifyMessages, m2 \in VerifyMessages } }

InitVerify ==
    /\ iteration = [pc |-> "idle"]
    /\ call_in \in [entry : VerifyEntries, accept_sorry : BOOLEAN]
    /\ call_out = <<>>
    /\ call_done = FALSE

CallIsVerified ==
    /\ ~call_done
    /\ call_out' = IsVerified(call_in.entry, call_in.accept_sorry)
    /\ call_done' = TRUE
    /\ UNCHANGED <<iteration, call_in>>
    /\ UNCHANGED <<cascadeVars, archiveVars, keyVars, storeVars, schedVars>>

NextVerify == CallIsVerified

StartVerify ==
    IdleCascade /\ IdleArchive /\ IdleKey /\ IdleStore /\ IdleSched /\ InitVerify

SpecVerify == StartVerify /\ [][NextVerify]_vars

\* C28: with accept_sorry false a response is verified if and only if the
\* service call did not error, no message of the response has error severity,
\* and no message is a warning saying that the declaration uses sorry.
C28_VerifiedIff ==
    (call_done /\ ~call_in.accept_sorry) =>
        LET e == call_in.entry IN
        call_out <=>
            /\ e.error = "None"
            /\ ~\E k \in 1..Len(e.messages) : e.messages[k].severity = "error"
            /\ ~\E k \in 1..Len(e.messages) :
                   /\ e.messages[k].severity = "warning"
                   /\ \E t \in 1..Len(e.messages[k].data) :
                          e.messages[k].data[t] = SorryWarn

\* a response whose second message is the sorry warning was rejected
C28_Witness ==
    /\ call_done
    /\ ~call_in.accept_sorry
    /\ call_in.entry.error = "None"
    /\ call_in.entry.messages =
           <<Msg("info", <<"unused", "variable">>), Msg("warning", <<"note:", SorryWarn>>)>>
    /\ call_out = FALSE

-----------------------------------------------------------------------------
(* One call of verify_proofs_passk on a batch whose responses come back in *)
(* any order                                                               *)

\* how many completions each candidate of the batch has
CompletionCounts == {<<1, 1>>, <<2, 1>>, <<1, 2>>, <<2, 2>>, <<0, 2>>, <<2, 0>>}

\* proofs_per_conj with the given numbers of completions
ProofsOf(counts) == [i \in 1..Len(counts) |-> [j \in 1..counts[i] |-> ShortProof]]

\* the orders in which m responses can come back
Orders(m) == {o \in [1..m -> 1..m] : \A p, q \in 1..m : o[p] = o[q] => p = q}

\* a batch: the identities of its requests, the service's response to each
\* request (in request order) and the order in which the responses come back
PasskBatches ==
    UNION { LET ids == PasskIds(ProofsOf(counts), 1) IN
            { [counts |-> counts, ids |-> ids,
               replies |-> [p \in 1..Len(ids) |-> Entry(ids[p], a[p].error, a[p].messages)],
               order |-> o] :
                a \in [1..Len(ids) -> PasskAnswers], o \in Orders(Len(ids)) } :
            counts \in CompletionCounts }

\* flat_results: the responses in the order they come back
FlatResults(b) == [p \in 1..Len(b.ids) |-> b.replies[b.order[p]]]

InitGroup ==
    /\ iteration = [pc |-> "idle"]
    /\ call_in \in PasskBatches
    /\ call_out = <<>>
    /\ call_done = FALSE

CallVerifyProofsPassk ==
    /\ ~call_done
    /\ call_out' = VerifyProofsPassk(Len(call_in.counts), FlatResults(call_in))
    /\ call_done' = TRUE
    /\ UNCHANGED <<iteration, call_in>>
    /\ UNCHANGED <<cascadeVars, archiveVars, keyVars, storeVars, schedVars>>

NextGroup == CallVerifyProofsPassk

StartGroup ==
    IdleCascade /\ IdleArchive /\ IdleKey /\ IdleStore /\ IdleSched /\ InitGroup

SpecGroup == StartGroup /\ [][NextGroup]_vars

\* C29: verify_proofs_passk returns a grouped structure whose entry [i][j] is
\* the service's response to the request with identity "i:j", for every
\* submitted pair, whatever the order in which the flat responses come back
\* and also when the candidates have different numbers of completions.
C29_GroupedByIdentity ==
    call_done =>
        /\ ~call_out.raised
        /\ Len(call_out.grouped) = Len(call_in.counts)
        /\ \A i \in 1..Len(call_in.counts) :
             /\ Len(call_out.grouped[i]) = call_in.counts[i]
             /\ \A j \in 1..call_in.counts[i] :
                  \E p \in 1..Len(call_in.ids) :
                      /\ call_in.ids[p] = FormatId(i - 1, j - 1)
                      /\ call_out.grouped[i][j] = call_in.replies[p]

\* a jagged batch whose responses came back in reverse order, with answers
\* that differ from one request to the next
C29_Witness ==
    /\ call_done
    /\ call_in.counts = <<2, 1>>
    /\ call_in.order = <<3, 2, 1>>
    /\ IsVerified(call_in.replies[1], FALSE)
    /\ ~IsVerified(call_in.replies[2], FALSE)
    /\ IsVerified(call_in.replies[3], FALSE)
    /\ call_out.grouped[1][2] = call_in.replies[2]

-----------------------------------------------------------------------------
(* The aesop? stage *)

\* message m is a suggested proof
IsSuggestion(m) == m.severity = "info" /\ Len(m.data) >= 1 /\ m.data[1] = TryThis

\* message m holds the placeholder sorry
HoldsSorry(m) == \E t \in 1..Len(m.data) : m.data[t] \in {"sorry", SorryWarn}

\* some message of the response is a suggested proof without a placeholder
HasCleanSuggestion(resp) ==
    \E k \in 1..Len(resp.messages) :
        IsSuggestion(resp.messages[k]) /\ ~HoldsSorry(resp.messages[k])

\* the response has suggestions, and every one of them holds a placeholder
OnlySorrySuggestions(resp) ==
    /\ \E k \in 1..Len(resp.messages) : IsSuggestion(resp.messages[k])
    /\ ~HasCleanSuggestion(resp)

\* what C30 says of candidate g in a step of evaluate: when the step is the
\* aesop? stage and g was part of its request, g is classified
\* TriviallyProvable by it if and only if (or, for `always` false, only if the
\* run is not in testing mode and then if and only if) its response holds a
\* suggested proof without a placeholder, and g stays open when its only
\* suggestions hold a placeholder; when the step is the full proof search, a
\* candidate left open that way is part of its request.
AesopRule(g, always) ==
    /\ (pc = "aesop" /\ pc' = "prove" /\ g \in Range(stage2_pass)) =>
          /\ (always \/ ~testing) =>
                (results'[g].aesop_provable <=> HasCleanSuggestion(aesop_seen'[g]))
          /\ OnlySorrySuggestions(aesop_seen'[g]) =>
                (g \in Range(stage3_pass') /\ ~IsTriviallyProvable(results'[g]))
    /\ (pc = "prove" /\ pc' \in {"negate", "returned"}
           /\ "aesop" \in submitted[g] /\ OnlySorrySuggestions(aesop_seen[g])) =>
          "prove" \in submitted'[g]

-----------------------------------------------------------------------------
(* One iteration of ConjecturerPipeline.run from its call of evaluate on, with
   the cascade run stage by stage.  pipeline.py calls evaluate without a
   `testing` argument and has no try around the call: an exception of evaluate
   leaves run.  The judge is one that scores every candidate the same, so the
   fitness_score of a record follows the sign of the proof outcomes. *)

\* `results = evaluator.evaluate(...)` has come back
EvaluateReturned_OrRaised == pc \in {"returned", "raised"}

EvaluateReturned == pc = "returned"

\* fitness_score = overall/100*0.40 + verified*0.40 - neg_verified*0.40 for an
\* overall of 50, by its sign
RunFit(r) == IF IsLikelyFalse(r) THEN -1 ELSE 1

\* the assignment of `results`, at pipeline.py line 84
RunEvaluate ==
    /\ iteration.pc = "top"
    /\ iteration.batch = <<>>
    /\ EvaluateReturned
    /\ iteration' = [pc |-> "evaluated", batch |-> results, op |-> "op_a",
                     history_open |-> \E g \in 1..Len(results) : NotTrivial(results[g]),
                     called |-> FALSE, judged |-> <<>>, appended |-> 0,
                     ledger0 |-> Len(ledger)]
    /\ UNCHANGED <<cfg, elite_map, dirty, now, files, op_stats, ledger, next_uuid>>
    /\ UNCHANGED iterRest

\* the body of the loop over the records, for the next candidate of the batch
RunRecord ==
    /\ iteration.pc = "merging"
    /\ iteration.appended < Len(iteration.batch)
    /\ \E fit \in {RunFit(iteration.batch[iteration.appended + 1])} :
         /\ ledger' = Append(ledger, PipelineLine(iteration.op, fit))
         /\ next_uuid' = next_uuid + 1
         /\ op_stats' = Put(op_stats, iteration.op,
                            <<StatsOf(op_stats, iteration.op)[1] + Win(fit),
                              StatsOf(op_stats, iteration.op)[2] + 1>>)
         /\ UpdateElitesIn(PipelineEntry(fit, LowMap))
    /\ iteration' = [iteration EXCEPT !.appended = @ + 1]
    /\ UNCHANGED files
    /\ UNCHANGED iterRest

NextRun ==
    \/ CompileStage
    \/ ExactStage
    \/ AesopStage
    \/ ProveStage
    \/ NegateStage
    \/ RpcFails
    \/ RunEvaluate
    \/ IterContext
    \/ IterFitness
    \/ RunRecord
    \/ IterPersist

StartRun ==
    /\ InitCascade
    /\ testing = FALSE
    /\ IdleArchive
    /\ IdleKey
    /\ IdleStore
    /\ IdleSched
    /\ InitIteration

SpecRun == StartRun /\ [][NextRun]_vars

\* the archive, the operator statistics, the ledger and the archive file are as
\* they were when the iteration called evaluate
StoresUntouched ==
    /\ elite_map = <<>>
    /\ ~dirty
    /\ op_stats = [op \in {NOVEL_ARM} |-> <<0, 0>>]
    /\ ledger = <<>>
    /\ files = [json |-> NoFile, tmp |-> NoFile]

C31_WitnessReturned ==
    /\ pc = "returned"
    /\ iteration.pc = "top"
    /\ Len(ledger) = 2
    /\ elite_map # <<>>
    /\ files.json.there

-----------------------------------------------------------------------------
(* update_elites and persist called from several threads.  map_archive.py
   creates _lock and never acquires it, so the statements of two calls may
   interleave: a call of update_elites reads the incumbent and decides
   (lines 170-185), then writes (lines 187-189); persist goes through the
   steps of PersistBegin to PersistReturn. *)

LowKey == FeatureKey(DefaultBins, LowMap)

\* the records of one niche the threads insert, and the incumbent
RaceEntries ==
    [ has_fitness   : {TRUE},
      fitness_score : {1, 2},
      has_timestamp : {TRUE},
      timestamp     : {0, 1},
      map_scores    : {LowMap} ]

Threads == {1, 2}

InitRace ==
    /\ cfg = DefaultConfig
    /\ elite_map \in {<<>>} \cup {Put(<<>>, LowKey, Stamped(e)) : e \in RaceEntries}
    /\ dirty = (elite_map # <<>>)
    /\ now = 0
    /\ best_seen = <<>>
    /\ best_since = <<>>
    /\ last_op = [op |-> "init", why |-> "none"]
    /\ IdleStore
    /\ iteration = [pc |-> "idle"]
    /\ call_in \in [entries : [Threads -> RaceEntries], incumbent : {elite_map}]
    /\ call_out = [t \in Threads |-> [pc |-> "start", replaced |-> FALSE]]
    /\ call_done = FALSE

raceRest == <<cascadeVars, keyVars, schedVars, storeVars, cfg, now, best_seen,
              best_since, last_op, iteration, call_in, call_done>>

\* thread t: key = _feature_key(entry), incumbent = _elite_map.get(key), and
\* the decision `replaced`
InsertRead(t) ==
    /\ call_out[t].pc = "start"
    /\ LET entry   == Stamped(call_in.entries[t])
           key     == FeatureKey(cfg.bins, entry.map_scores)
           has_inc == key \in DOMAIN elite_map
       IN call_out' = [call_out EXCEPT ![t] =
              [pc |-> "decided",
               replaced |-> Replaces(entry, has_inc,
                                     IF has_inc THEN elite_map[key] ELSE entry)]]
    /\ UNCHANGED <<elite_map, dirty>>
    /\ UNCHANGED raceRest

\* thread t: `if replaced: _elite_map[key] = entry; _dirty = True`
InsertWrite(t) ==
    /\ call_out[t].pc = "decided"
    /\ call_out' = [call_out EXCEPT ![t].pc = "done"]
    /\ IF call_out[t].replaced
       THEN LET entry == Stamped(call_in.entries[t])
            IN /\ elite_map' = Put(elite_map, FeatureKey(cfg.bins, entry.map_scores), entry)
               /\ dirty' = TRUE
       ELSE UNCHANGED <<elite_map, dirty>>
    /\ UNCHANGED raceRest

NextRace ==
    \/ \E t \in Threads : InsertRead(t)
    \/ \E t \in Threads : InsertWrite(t)
    \/ PersistBegin
    \/ PersistWrite
    \/ PersistRename
    \/ PersistReturn

StartRace == IdleCascade /\ IdleKey /\ IdleSched /\ InitRace

SpecRace == StartRace /\ [][NextRace]_vars

\* the map after update_elites(e) has run alone on map m
InsertedAlone(m, e) ==
    LET entry == Stamped(e)
        key   == FeatureKey(DefaultBins, entry.map_scores)
    IN IF key \notin DOMAIN m \/ Better(entry, m[key]) THEN Put(m, key, entry) ELSE m

AllInserted == \A t \in Threads : call_out[t].pc = "done"

\* C32: when two calls of update_elites for records of one niche have both
\* completed, the niche holds what it holds after the two calls have run one
\* after the other: the winner of the replacement rule among the incumbent
\* and the two records.
C32_ConcurrentInsertsSerialized ==
    AllInserted =>
        \/ elite_map = InsertedAlone(InsertedAlone(call_in.incumbent, call_in.entries[1]),
                                     call_in.entries[2])
        \/ elite_map = InsertedAlone(InsertedAlone(call_in.incumbent, call_in.entries[2]),
                                     call_in.entries[1])

\* C33: when a call of persist and a call of update_elites have both
\* completed, the record the insert bound to its niche is part of the archive
\* file or the dirty flag is set.
C33_InsertNotLostByPersist ==
    \A t \in Threads :
        (/\ persist_pc = "idle"
         /\ call_out[t].pc = "done"
         /\ call_out[t].replaced
         /\ elite_map[LowKey] = Stamped(call_in.entries[t]))
        => \/ dirty
           \/ /\ files.json.kind = "object"
              /\ KeyString(LowKey) \in DOMAIN files.json.data
              /\ files.json.data[KeyString(LowKey)] = elite_map[LowKey]

-----------------------------------------------------------------------------
(* The loop over the records of one iteration (pipeline.py lines 101-123),
   statement by statement, and the persist() that follows it *)

InitOrder ==
    /\ \E batch \in CascadeBatches, op \in ChosenOps :
         iteration = [pc |-> "merging", batch |-> batch, op |-> op,
                      history_open |-> TRUE, called |-> TRUE, judged |-> batch,
                      appended |-> 0, ledger0 |-> 0, at |-> "append", fit |-> 0,
                      offered |-> 0]
    /\ call_in = <<>>
    /\ call_out = <<>>
    /\ call_done = FALSE

\* program_db.append(record)
RecAppend ==
    /\ iteration.pc = "merging"
    /\ iteration.at = "append"
    /\ iteration.appended < Len(iteration.batch)
    /\ \E fit \in FitnessValues \cup {0} :
         /\ ledger' = Append(ledger, PipelineLine(iteration.op, fit))
         /\ iteration' = [iteration EXCEPT !.at = "stats", !.fit = fit]
    /\ next_uuid' = next_uuid + 1
    /\ UNCHANGED <<cfg, elite_map, dirty, now, files, op_stats>>
    /\ UNCHANGED iterRest

\* sampler.update_operator_stats(chosen_op, float(record["fitness_score"]))
RecStats ==
    /\ iteration.pc = "merging"
    /\ iteration.at = "stats"
    /\ op_stats' = Put(op_stats, iteration.op,
                       <<StatsOf(op_stats, iteration.op)[1] + Win(iteration.fit),
                         StatsOf(op_stats, iteration.op)[2] + 1>>)
    /\ iteration' = [iteration EXCEPT !.at = "elites"]
    /\ UNCHANGED <<cfg, elite_map, dirty, now, files, ledger, next_uuid>>
    /\ UNCHANGED iterRest

\* map_archive.update_elites(record), the last statement of the loop body
RecElites ==
    /\ iteration.pc = "merging"
    /\ iteration.at = "elites"
    /\ \E ms \in {LowMap, HighMap} : UpdateElitesIn(PipelineEntry(iteration.fit, ms))
    /\ iteration' = [iteration EXCEPT !.at = "append", !.appended = @ + 1,
                                      !.offered = @ + 1]
    /\ UNCHANGED <<files, op_stats, ledger, next_uuid>>
    /\ UNCHANGED iterRest

NextOrder ==
    \/ RecAppend
    \/ RecStats
    \/ RecElites
    \/ IterPersist

StartOrder == IdleCascade /\ InitSample /\ IdleKey /\ IdleStore /\ IdleSched /\ InitOrder

SpecOrder == StartOrder /\ [][NextOrder]_vars

\* C34: in an iteration, when a record is appended to the ledger the operator
\* statistics have been updated with it and it has been offered to the
\* archive; and the archive is persisted only after every record of the
\* iteration has been appended.
C34_StoresUpdatedBeforeLedger ==
    [][ /\ Len(ledger') = Len(ledger) + 1 =>
              /\ StatsOf(op_stats, iteration.op)[2] >= Len(ledger')
              /\ iteration.offered >= Len(ledger')
        /\ files' # files => Len(ledger) = iteration.ledger0 + Len(iteration.batch)
      ]_vars

-----------------------------------------------------------------------------
(* Further claims about the archive *)

\* C35: under the default configuration (prune_threshold 0, stale_after_sec
\* 0) prune_underperformers removes no elite, whatever the archive holds,
\* elites with the negative fitness_score of a likely-false candidate
\* included.
C35_DefaultPruneKeepsAll ==
    cfg = DefaultConfig => last_op # [op |-> "prune", why |-> "removed"]

\* C36: update_elites never prunes.  A call removes no key of the map, and
\* the only key whose binding may differ afterwards is the niche key of the
\* record that was passed in.
C36_InsertNeverPrunes ==
    [][ \A e \in ArchiveEntries :
          UpdateElites(e) =>
              /\ DOMAIN elite_map \subseteq DOMAIN elite_map'
              /\ \A k \in DOMAIN elite_map' :
                    k # NicheOf(e) =>
                        (k \in DOMAIN elite_map /\ elite_map'[k] = elite_map[k]) ]_vars

\* the last insert replaced a weaker incumbent while another niche was filled
C36_Witness ==
    /\ last_op = [op |-> "insert", why |-> "fitter"]
    /\ Cardinality(DOMAIN elite_map) >= 2

-----------------------------------------------------------------------------
(* Further claims about the cascade *)

\* how many verdicts of a list are `want`
CountOf(verdicts, want) ==
    Cardinality({j \in 1..Len(verdicts) : verdicts[j] = want})

\* C37: what results[g] holds comes from the answers to g's own requests.
\* Every result stands at the index of its candidate; a candidate that compiled
\* is in stage1_pass and the later pass lists hold who went on; a candidate the
\* proof search did not take has no list of tried proofs; for one it took, the verified
\* and unverified forward proofs at results[g] are as many as the answers to
\* g's own completions that did and did not verify, and after the negation
\* search the same holds of the negated proofs, the forward lists being kept.
C37_ResultsFromOwnResponses ==
    pc \in {"negate", "returned"} =>
        \A g \in 1..nconj :
            /\ results[g].conjecture = g
            /\ results[g].error = "compile_failed" <=> g \notin Range(stage1_pass)
            /\ g \notin Range(stage3_pass) =>
                  /\ results[g].unverified_proofs = NoneList
                  /\ results[g].neg_verified_proofs = NoneList
                  /\ results[g].neg_unverified_proofs = NoneList
                  /\ fwd_ok[g] = <<>>
            /\ g \in Range(stage3_pass) =>
                  /\ Len(results[g].verified_proofs) = CountOf(fwd_ok[g], TRUE)
                  /\ Len(results[g].unverified_proofs) = CountOf(fwd_ok[g], FALSE)
                  /\ proof[g] = SorryTag <=>
                        (~AnyTrue(fwd_ok[g]) /\ ~AnyTrue(neg_ok[g]))
            /\ (pc = "returned" /\ "negate" \in submitted[g]) =>
                  /\ Len(results[g].neg_verified_proofs) = CountOf(neg_ok[g], TRUE)
                  /\ Len(results[g].neg_unverified_proofs) = CountOf(neg_ok[g], FALSE)
            /\ "negate" \notin submitted[g] => neg_ok[g] = <<>>

\* an earlier candidate left the cascade before the proof search, so that the
\* local indices differ from the global ones, and the negation search found
\* one verified and one unverified proof of a later candidate's negation
C37_Witness ==
    /\ pc = "returned"
    /\ \E g \in Range(stage3_pass) :
          /\ \E h \in 1..nconj : h < g /\ h \notin Range(stage3_pass)
          /\ "negate" \in submitted[g]
          /\ Len(results[g].neg_verified_proofs) = 1
          /\ Len(results[g].neg_unverified_proofs) = 1

-----------------------------------------------------------------------------
(* sampler.choose_operator, between calls of update_operator_stats *)

\* the operator lists choose_operator is called with
OperatorLists == {<<>>, <<"op_a">>, <<"op_b", "op_a">>}

\* random.betavariate(alpha, beta) raises ValueError unless both are positive
BetaDefined(ab) == ab[1] > 0 /\ ab[2] > 0

\* the arguments of betavariate for one operator: wins + 1, tries - wins + 1
BetaParams(op) ==
    LET wins  == StatsOf(op_stats, op)[1]
        tries == StatsOf(op_stats, op)[2]
    IN <<wins + 1, tries - wins + 1>>

InitChoose ==
    /\ iteration = [pc |-> "idle"]
    /\ call_in = <<>>
    /\ call_out = [how |-> "none", op |-> NOVEL_ARM, params |-> <<>>]
    /\ call_done = FALSE

\* choose_operator(operators, step): the exploration floor returns NOVEL_ARM;
\* otherwise one Beta draw per operator of operators + [NOVEL_ARM], and the
\* operator of the largest draw, which may be any of them
ChooseOperator ==
    /\ \E operators \in OperatorLists :
         LET all_ops == Append(operators, NOVEL_ARM)
             params  == [k \in 1..Len(all_ops) |-> BetaParams(all_ops[k])]
         IN \/ call_out' = [how |-> "floor", op |-> NOVEL_ARM, params |-> <<>>]
            \/ \E k \in 1..Len(all_ops) :
                  call_out' =
                      IF \A q \in 1..Len(all_ops) : BetaDefined(params[q])
                      THEN [how |-> "drawn", op |-> all_ops[k], params |-> params]
                      ELSE [how |-> "raised", op |-> NOVEL_ARM, params |-> params]
    /\ call_done' = TRUE
    /\ UNCHANGED <<iteration, call_in>>
    /\ UNCHANGED <<cascadeVars, archiveVars, keyVars, storeVars, schedVars>>

NextChoose ==
    \/ StatsUpdate
    \/ ChooseOperator

StartChoose == IdleCascade /\ IdleArchive /\ IdleKey /\ IdleStore /\ IdleSched /\ InitChoose

SpecChoose == StartChoose /\ [][NextChoose]_vars

\* C38: after any sequence of update_operator_stats and choose_operator calls
\* every operator, one without an entry (read as (0, 0)) included, has
\* 0 <= successes <= trials, so that both Beta parameters, successes + 1 and
\* trials - successes + 1, are at least 1 and no draw of choose_operator fails.
C38_SuccessesWithinTrials ==
    /\ \A op \in OperatorIds :
          /\ 0 <= StatsOf(op_stats, op)[1]
          /\ StatsOf(op_stats, op)[1] <= StatsOf(op_stats, op)[2]
          /\ BetaParams(op)[1] >= 1
          /\ BetaParams(op)[2] >= 1
    /\ call_out.how # "raised"
    /\ \A k \in 1..Len(call_out.params) :
          call_out.params[k][1] >= 1 /\ call_out.params[k][2] >= 1

\* choose_operator drew for an operator that won all its trials, for one that
\* lost one, and for an arm with no trial
C38_Witness ==
    /\ call_out.how = "drawn"
    /\ Len(call_out.params) = 3
    /\ StatsOf(op_stats, "op_a") = <<MaxTrials, MaxTrials>>
    /\ StatsOf(op_stats, "op_b") = <<0, 1>>
    /\ StatsOf(op_stats, NOVEL_ARM) = <<0, 0>>
    /\ call_out.params[2] = <<MaxTrials + 1, 1>>

-----------------------------------------------------------------------------
(* Further claims about persistence *)

\* the map a document holds: what load_existing reads from it into an empty map
DocumentMap(file) == LoadedInto(<<>>, file)

\* C39: in a single thread, whenever the dirty flag is clear the map in memory
\* equals the map of the document on disk as of the last load or persist; an
\* insert that changes the map sets the flag, and within the life of a process
\* only a persist that has run to its end clears it.
C39_CleanMeansSaved ==
    /\ []((persist_pc # "down" /\ ~dirty) => elite_map = DocumentMap(files.json))
    /\ [][ /\ (last_op'.op = "insert" /\ elite_map' # elite_map) => dirty'
           /\ (dirty /\ ~dirty' /\ last_op'.op \notin {"crash", "restart"}) =>
                 last_op' = [op |-> "persist", why |-> "written"] ]_vars

-----------------------------------------------------------------------------
(* One pass@k round trip in which the service leaves some requests without *)
(* a response                                                              *)

\* the positions of seq that are in keep, in order
RECURSIVE Kept(_, _, _)
Kept(seq, keep, p) ==
    IF p > Len(seq) THEN <<>>
    ELSE (IF p \in keep THEN <<seq[p]>> ELSE <<>>) \o Kept(seq, keep, p + 1)

\* a batch of candidates with up to two completions each, the service's answer
\* to every request and the set of requests whose response comes back
PartialBatches ==
    UNION { LET ids == PasskIds(ProofsOf(counts), 1) IN
            { [counts |-> counts, ids |-> ids,
               replies |-> [p \in 1..Len(ids) |-> Entry(ids[p], a[p].error, a[p].messages)],
               returned |-> keep] :
                a \in [1..Len(ids) -> PasskAnswers], keep \in SUBSET (1..Len(ids)) } :
            counts \in {<<2>>, <<2, 1>>, <<1, 2>>, <<2, 2>>} }

InitPartial ==
    /\ iteration = [pc |-> "idle"]
    /\ call_in \in PartialBatches
    /\ call_out = <<>>
    /\ call_done = FALSE

\* verify_proofs_passk on the responses that came back, then
\* _evaluate_proofs_passk on its grouping
CallPasskPartial ==
    /\ ~call_done
    /\ \E vr \in {VerifyProofsPassk(Len(call_in.counts),
                                    Kept(call_in.replies, call_in.returned, 1))} :
         call_out' = [raised |-> vr.raised, grouped |-> vr.grouped,
                      ev |-> EvaluateProofsPassk(vr.grouped, ProofsOf(call_in.counts),
                                                 FALSE)]
    /\ call_done' = TRUE
    /\ UNCHANGED <<iteration, call_in>>
    /\ UNCHANGED <<cascadeVars, archiveVars, keyVars, storeVars, schedVars>>

NextPartial == CallPasskPartial

StartPartial ==
    IdleCascade /\ IdleArchive /\ IdleKey /\ IdleStore /\ IdleSched /\ InitPartial

SpecPartial == StartPartial /\ [][NextPartial]_vars

\* the service returned a response for completion j of candidate i (1-based)
Returned(i, j) ==
    \E p \in call_in.returned : call_in.ids[p] = FormatId(i - 1, j - 1)

\* C40: a completion counts as verified only if the service returned a
\* response for its identity.  A completion whose response is missing is not
\* among the verified proofs of its candidate, and a candidate none of whose
\* returned responses verifies is not in verified_idx (it cannot come out as
\* NonTriviallyProvable, nor its negation as proved).
C40_MissingResponseNotVerified ==
    call_done =>
        \A i \in 1..Len(call_in.counts) :
            /\ Len(call_out.ev.proofs[i].verified) <=
                  Cardinality({ j \in 1..call_in.counts[i] : Returned(i, j) })
            /\ i \in call_out.ev.verified_idx =>
                  \E p \in call_in.returned :
                      /\ ParseId(call_in.ids[p]).i = i - 1
                      /\ IsVerified(call_in.replies[p], FALSE)

=============================================================================
